---- MODULE Spec2Model ----
(***************************************************************************)
(* Model of the plan validation / repair core of the autonomous agent:     *)
(*   ConcretePlanner.run_repair_loop, refine_bid_index_with_llm,           *)
(*   generate_concrete_plan / refine_concrete_plan, validate_plan,         *)
(*   ObservationAnalyzer.analyze (Status column), build_action_code and    *)
(*   the task loop run_autonomous_task.                                    *)
(*                                                                         *)
(* Text values (Value, InnerT, Status, Class, targets) are sequences of    *)
(* one-character strings, so that strip / lower / upper / substring are    *)
(* computed, not assumed.  Identifiers (BIDs, field names, roles, tags,    *)
(* action types) are atomic strings: the code only compares them.          *)
(***************************************************************************)
EXTENDS Integers, Sequences, FiniteSets, TLC

VARIABLES
    inp,      \* arguments of the function under check (pure-function specifications)
    out,      \* its result
    phase     \* "in" before the call, "out" after it, "idle" when unused

VARIABLES
    pc,            \* position in run_repair_loop / run_autonomous_task
    rl,            \* run_repair_loop: its parameters and locals
    plan_result,   \* what run_repair_loop returned (or that it raised)
    task,          \* run_autonomous_task: its locals and the environment
    hist           \* history of the calls made (validate_plan, oracle, env.step)

fnvars == <<inp, out, phase>>
rvars  == <<pc, rl, plan_result>>
tvars  == <<task, hist>>
vars   == <<fnvars, rvars, tvars>>

(***************************************************************************)
(* Python string operations                                                *)
(***************************************************************************)
LowerLetters == <<"a","b","c","d","e","f","g","h","i","j","k","l","m",
                  "n","o","p","q","r","s","t","u","v","w","x","y","z">>
UpperLetters == <<"A","B","C","D","E","F","G","H","I","J","K","L","M",
                  "N","O","P","Q","R","S","T","U","V","W","X","Y","Z">>

char_upper(c) ==
    IF \E i \in DOMAIN LowerLetters : LowerLetters[i] = c
    THEN UpperLetters[CHOOSE i \in DOMAIN LowerLetters : LowerLetters[i] = c]
    ELSE c

char_lower(c) ==
    IF \E i \in DOMAIN UpperLetters : UpperLetters[i] = c
    THEN LowerLetters[CHOOSE i \in DOMAIN UpperLetters : UpperLetters[i] = c]
    ELSE c

\* str.upper() / str.lower()
str_upper(s) == [i \in 1..Len(s) |-> char_upper(s[i])]
str_lower(s) == [i \in 1..Len(s) |-> char_lower(s[i])]

\* str.strip(): drop leading and trailing whitespace
str_strip(s) ==
    LET nonblank == {i \in 1..Len(s) : s[i] # " "}
    IN  IF nonblank = {} THEN <<>>
        ELSE LET lo == CHOOSE i \in nonblank : \A j \in nonblank : i <= j
                 hi == CHOOSE i \in nonblank : \A j \in nonblank : i >= j
             IN  SubSeq(s, lo, hi)

\* `sub in s` on Python strings
str_contains(s, sub) ==
    \E i \in 0..(Len(s) - Len(sub)) : SubSeq(s, i + 1, i + Len(sub)) = sub

(***************************************************************************)
(* String literals of the source                                           *)
(***************************************************************************)
S_empty      == <<>>
S_blank      == <<" ">>
S_true       == <<"t","r","u","e">>
S_false      == <<"f","a","l","s","e">>
S_True       == <<"T","r","u","e">>
S_X          == <<"X">>
S_none       == <<"n","o","n","e">>
S_dash_none  == <<"-","-"," ","n","o","n","e"," ","-","-">>
S_null       == <<"n","u","l","l">>
S_Dash_None  == <<"-","-"," ","N","o","n","e"," ","-","-">>
S_NULL       == <<"N","U","L","L">>
S_on         == <<"o","n">>
S_Active     == <<"A","c","t","i","v","e">>
S_Required   == <<"R","e","q","u","i","r","e","d">>
S_Checked    == <<"C","h","e","c","k","e","d">>
S_ReqChecked == S_Required \o <<"|">> \o S_Checked
S_CHECKED    == <<"C","H","E","C","K","E","D">>
S_is_checked == <<"i","s","-","c","h","e","c","k","e","d">>
S_NOT_FOUND  == <<"N","O","T","_","F","O","U","N","D">>

POSITIVE_INDICATORS ==
    { <<"Y","E","S">>, <<"T","R","U","E">>, <<"O","N">>, S_CHECKED, <<"1">>,
      <<"S","E","L","E","C","T","E","D">>,
      <<"A","C","T","I","V","E">>,
      <<"I","S","-">> \o S_CHECKED,
      <<"C","H","E","C","K","B","O","X","-","A","C","T","I","V","E">>,
      <<"R","A","D","I","O","-","A","C","T","I","V","E">>,
      S_CHECKED \o <<"-","T","R","U","E">> }

NULL_PLACEHOLDERS == {S_none, S_dash_none, S_null}

VALID_ACTIONS ==
    {"fill", "click", "focus", "select_option", "scroll", "hover",
     "extractLLM", "send_msg_to_user"}

(***************************************************************************)
(* Data: unified table rows, field index entries, action descriptors       *)
(***************************************************************************)
None == "<none>"     \* Python None / an absent dictionary key

\* ObservationAnalyzer.analyze, step 5: the Status column
analyze_status(required, checked) ==
    IF required /\ checked THEN S_ReqChecked
    ELSE IF required THEN S_Required
    ELSE IF checked THEN S_Checked
    ELSE S_Active

\* ObservationAnalyzer.analyze: the row built for one element of unified_map
\* (the spatial labels Label_L / Label_A are carried by the element)
analyze_row(el) ==
    [BID |-> el.BID, Role |-> el.Role, Tag |-> el.Tag,
     Label_L |-> el.Label_L, Label_A |-> el.Label_A, Label_AX |-> el.Label_AX,
     Label_P |-> el.Label_P, InnerT |-> el.InnerT, Value |-> el.Value,
     Status |-> analyze_status(el.required, el.checked),
     Vis |-> el.Vis, Class |-> el.Class,
     Focused |-> IF el.focused THEN "YES" ELSE "no",
     HasPop |-> IF el.haspopup THEN "YES" ELSE "no",
     Hover_Strat |-> IF el.haspopup THEN "Investigate" ELSE "None",
     JS |-> IF el.Clickable THEN "YES" ELSE "no",
     BBox |-> el.BBox]

\* a bounding box, or its absence (None)
BBox(x, y, w, h) == [present |-> TRUE, x |-> x, y |-> y, w |-> w, h |-> h]
NoBBox == [present |-> FALSE, x |-> 0, y |-> 0, w |-> 0, h |-> 0]

has_physical_size_or_absent(bbox) == ~bbox.present \/ (bbox.w >= 1 /\ bbox.h >= 1)

\* bbox and len(bbox) >= 4 and bbox[2] >= 1 and bbox[3] >= 1
has_physical_size(bbox) == bbox.present /\ bbox.w >= 1 /\ bbox.h >= 1

INTERACTIVE_TAGS == {"INPUT", "SELECT", "TEXTAREA", "BUTTON", "A"}

is_interactive(el) == el.Tag \in INTERACTIVE_TAGS \/ el.Clickable

\* the two filters of analyze: el.focused is bid == self.focused_bid
analyze_keeps(el) ==
    /\ has_physical_size(el.BBox) \/ el.focused
    /\ ~(el.Vis = 0 /\ ~el.focused /\ ~is_interactive(el))

analyze_kept(elements) == SelectSeq(elements, analyze_keeps)

\* ObservationAnalyzer.analyze: the table, one row per element kept, in map order
analyze(elements) ==
    [i \in 1..Len(analyze_kept(elements)) |-> analyze_row(analyze_kept(elements)[i])]

\* str(role).lower() over the roles that occur
role_lower(r) ==
    CASE r = "LabelText"  -> "labeltext"
      [] r = "StaticText" -> "statictext"
      [] r = "Label"      -> "label"
      [] r = "None"       -> "none"
      [] OTHER            -> r

\* str(tag).upper() over the tags that occur
tag_upper(t) ==
    CASE t = "label"  -> "LABEL"
      [] t = "input"  -> "INPUT"
      [] t = "span"   -> "SPAN"
      [] t = "select" -> "SELECT"
      [] t = "button" -> "BUTTON"
      [] OTHER        -> t

\* Field index entries: the sentinel string, a binding dictionary, or whatever
\* else the oracle put there (another string, null)
\* (kind "dict" carries the bid and the display label of the binding)
NOT_FOUND  == [kind |-> "NOT_FOUND", bid |-> None, label |-> <<>>]
BindingL(b, label) == [kind |-> "dict", bid |-> b, label |-> label]
Binding(b) == BindingL(b, <<>>)
StrEntry   == [kind |-> "str", bid |-> None, label |-> <<>>]
NullEntry  == [kind |-> "null", bid |-> None, label |-> <<>>]
Absent     == [kind |-> "absent", bid |-> None, label |-> <<>>]

\* dict.get(key) on the field index
index_get(bid_index, k) == IF k \in DOMAIN bid_index THEN bid_index[k] ELSE Absent

\* An action descriptor with the given type, target and logic reference and
\* no payload key present
Act(a_type, bid, logic_ref) ==
    [action_type |-> a_type, bid |-> bid, logic_ref |-> logic_ref,
     value |-> <<>>, options |-> <<>>, option |-> <<>>, message |-> <<>>,
     instruction |-> <<>>, dx |-> 0, dy |-> 0, direction |-> None,
     keys |-> {}]

With(a, key, v) ==
    CASE key = "value"       -> [a EXCEPT !.value = v, !.keys = @ \cup {key}]
      [] key = "options"     -> [a EXCEPT !.options = v, !.keys = @ \cup {key}]
      [] key = "option"      -> [a EXCEPT !.option = v, !.keys = @ \cup {key}]
      [] key = "message"     -> [a EXCEPT !.message = v, !.keys = @ \cup {key}]
      [] key = "instruction" -> [a EXCEPT !.instruction = v, !.keys = @ \cup {key}]
      [] key = "dx"          -> [a EXCEPT !.dx = v, !.keys = @ \cup {key}]
      [] key = "dy"          -> [a EXCEPT !.dy = v, !.keys = @ \cup {key}]
      [] key = "direction"   -> [a EXCEPT !.direction = v, !.keys = @ \cup {key}]

Step(step_id, actions) == [step_id |-> step_id, actions |-> actions]

\* [(step_id, action) for step in concrete_steps for action in step.actions]
RECURSIVE plan_actions(_)
plan_actions(concrete_steps) ==
    IF concrete_steps = <<>> THEN <<>>
    ELSE LET s == Head(concrete_steps)
         IN  [i \in 1..Len(s.actions) |->
                 [step_id |-> s.step_id, action |-> s.actions[i]]]
             \o plan_actions(Tail(concrete_steps))

(***************************************************************************)
(* ConcretePlanner.validate_plan                                           *)
(***************************************************************************)
has_row(raw_df, bid) == \E i \in DOMAIN raw_df : raw_df[i].BID = bid

\* raw_df[raw_df['BID'].astype(str) == bid].iloc[0]
first_row(raw_df, bid) ==
    raw_df[CHOOSE i \in DOMAIN raw_df :
              /\ raw_df[i].BID = bid
              /\ \A j \in DOMAIN raw_df : raw_df[j].BID = bid => i <= j]

\* the checked-state heuristic of the boolean audit
current_checked(cand) ==
    \E val_u  \in {str_strip(str_upper(cand.Value))},
       stat_u \in {str_strip(str_upper(cand.Status))},
       cls_u  \in {str_strip(str_upper(cand.Class))} :
        \/ \E ind \in POSITIVE_INDICATORS : str_contains(val_u, ind)
        \/ \E ind \in POSITIVE_INDICATORS : str_contains(stat_u, ind)
        \/ str_contains(cls_u, S_CHECKED)

empty_target_satisfied_exact(actual_val) == actual_val = <<>>

\* an empty target: the live value is empty or a null placeholder
empty_target_satisfied(actual_val) ==
    \/ actual_val = <<>>
    \/ str_lower(actual_val) \in NULL_PLACEHOLDERS

\* one iteration of the completion audit: is field_label added to
\* completed_logic_refs?
field_completed(field_label, target_val, bid_index, raw_df) ==
    \E target_val_orig \in {str_strip(target_val)},
       field_info      \in {index_get(bid_index, field_label)} :
        /\ field_info.kind = "dict"
        /\ has_row(raw_df, field_info.bid)
        /\ \E cand \in {first_row(raw_df, field_info.bid)} :
           \E actual_val   \in {str_strip(cand.Value)},
              actual_inner \in {str_strip(cand.InnerT)} :
               IF target_val_orig = <<>>
               THEN empty_target_satisfied(actual_val)
               ELSE IF str_lower(target_val_orig) \in {S_true, S_false}
               THEN current_checked(cand) = (str_lower(target_val_orig) = S_true)
               ELSE \/ target_val_orig = actual_val
                    \/ target_val_orig = actual_inner

completed_logic_refs(fields_spec, bid_index, raw_df) ==
    {f \in DOMAIN fields_spec : field_completed(f, fields_spec[f], bid_index, raw_df)}

planned_logic_refs(concrete_steps) ==
    LET acts == plan_actions(concrete_steps)
    IN  {acts[i].action.logic_ref : i \in DOMAIN acts} \ {None}

truly_missing_unfiltered(concrete_steps, fields_spec, bid_index, raw_df) ==
    (DOMAIN fields_spec \ completed_logic_refs(fields_spec, bid_index, raw_df))
        \ planned_logic_refs(concrete_steps)

\* (required_fields - completed_logic_refs) - planned_logic_refs, then the
\* fields whose index entry is truthy and not the sentinel
truly_missing(concrete_steps, fields_spec, bid_index, raw_df) ==
    {f \in ((DOMAIN fields_spec \ completed_logic_refs(fields_spec, bid_index, raw_df))
               \ planned_logic_refs(concrete_steps)) :
        index_get(bid_index, f).kind \in {"dict", "str"}}

MISSING_EXEMPT_and_scroll == {"send_msg_to_user", "extractLLM", "scroll"}

\* the action types whose presence silences the missing-field report
MISSING_EXEMPT == {"send_msg_to_user", "extractLLM"}

Err(kind, step_id, subject, hint, fields) ==
    [kind |-> kind, step_id |-> step_id, subject |-> subject, hint |-> hint,
     fields |-> fields]

missing_errors(concrete_steps, fields_spec, bid_index, raw_df) ==
    LET tm   == truly_missing(concrete_steps, fields_spec, bid_index, raw_df)
        acts == plan_actions(concrete_steps)
    IN  IF tm # {} /\ ~\E i \in DOMAIN acts : acts[i].action.action_type \in MISSING_EXEMPT
        THEN << Err("missing", None, None, None, tm) >>
        ELSE << >>

\* does the action reach the BID lookup (line 552)?
reaches_bid_check(action) ==
    /\ action.action_type \in VALID_ACTIONS
    /\ action.action_type \notin {"extractLLM", "send_msg_to_user", "scroll"}

is_label_target(raw_df, action) ==
    /\ has_row(raw_df, action.bid)
    /\ LET row  == first_row(raw_df, action.bid)
           role == role_lower(row.Role)
           tag  == tag_upper(row.Tag)
       IN  /\ role \in {"none", "label"} \/ tag = "LABEL"
           /\ tag \notin {"INPUT", "TEXTAREA", "SELECT", "A", "BUTTON"}

\* bid_index.get(logic_ref, {}).get('bid') raises when the entry is no mapping
suggestion_raises(bid_index, action) ==
    index_get(bid_index, action.logic_ref).kind \in {"NOT_FOUND", "str", "null"}

action_raises(action, bid_index, raw_df) ==
    /\ reaches_bid_check(action)
    /\ \/ raw_df = <<>>          \* an empty DataFrame has no 'BID' column
       \/ is_label_target(raw_df, action) /\ suggestion_raises(bid_index, action)

redundant_click_any_target(action, fields_spec, completed) ==
    /\ action.action_type = "click"
    /\ action.logic_ref \in completed

\* a click on a completed field whose target is a boolean word (lines 578-579)
redundant_click(action, fields_spec, completed) ==
    /\ action.action_type = "click"
    /\ action.logic_ref \in completed
    /\ str_lower(fields_spec[action.logic_ref]) \in {S_true, S_false}

action_errors_unknown_falls_through(step_id, action, fields_spec, bid_index, raw_df) ==
    (IF action.action_type \notin VALID_ACTIONS
     THEN << Err("unknown_action", step_id, action.action_type, None, {}) >>
     ELSE << >>)
    \o
    (IF is_label_target(raw_df, action)
     THEN << Err("label_target", step_id, action.bid,
                 index_get(bid_index, action.logic_ref).bid, {}) >>
     ELSE << >>)

\* the errors appended for one action (section 4 of validate_plan)
action_errors(step_id, action, fields_spec, bid_index, raw_df) ==
    LET a_type == action.action_type IN
    IF a_type \notin VALID_ACTIONS
    THEN << Err("unknown_action", step_id, a_type, None, {}) >>
    ELSE IF a_type = "extractLLM"
    THEN IF action.instruction = <<>>
         THEN << Err("missing_argument", step_id, a_type, None, {}) >>
         ELSE << >>
    ELSE IF a_type = "send_msg_to_user"
    THEN << >>
    ELSE IF a_type = "scroll"
    THEN IF action.keys \cap {"dx", "dy", "direction"} = {}
         THEN << Err("missing_argument", step_id, a_type, None, {}) >>
         ELSE << >>
    ELSE (IF is_label_target(raw_df, action)
          THEN << Err("label_target", step_id, action.bid,
                      index_get(bid_index, action.logic_ref).bid, {}) >>
          ELSE << >>)
         \o
         (IF redundant_click(action, fields_spec,
                             completed_logic_refs(fields_spec, bid_index, raw_df))
          THEN << Err("redundant_click", step_id, action.logic_ref, None, {}) >>
          ELSE << >>)

RECURSIVE all_action_errors(_, _, _, _)
all_action_errors(acts, fields_spec, bid_index, raw_df) ==
    IF acts = <<>> THEN <<>>
    ELSE action_errors(Head(acts).step_id, Head(acts).action, fields_spec, bid_index, raw_df)
         \o all_action_errors(Tail(acts), fields_spec, bid_index, raw_df)

validate_raises(concrete_steps, fields_spec, bid_index, raw_df) ==
    LET acts == plan_actions(concrete_steps) IN
    \/ raw_df = <<>> /\ \E f \in DOMAIN fields_spec : index_get(bid_index, f).kind = "dict"
    \/ \E i \in DOMAIN acts : action_raises(acts[i].action, bid_index, raw_df)

\* validate_plan: the list of diagnostics, or an exception
validate_plan(concrete_steps, fields_spec, bid_index, raw_df) ==
    IF validate_raises(concrete_steps, fields_spec, bid_index, raw_df)
    THEN [raised |-> TRUE, errors |-> <<>>]
    ELSE [raised |-> FALSE,
          errors |-> missing_errors(concrete_steps, fields_spec, bid_index, raw_df)
                     \o all_action_errors(plan_actions(concrete_steps),
                                          fields_spec, bid_index, raw_df)]

(***************************************************************************)
(* Values of the program state before anything ran                         *)
(***************************************************************************)
Unbound      == [bound |-> FALSE, errors |-> <<>>]
Bound(errs)  == [bound |-> TRUE, errors |-> errs]
NoResult     == [keys |-> {}, concrete_steps |-> <<>>, validation_errors |-> <<>>,
                 attempts |-> 0, raised |-> FALSE]
NoValidation == [n |-> 0, plan |-> <<>>, errors |-> <<>>, raised |-> FALSE]
NoCall       == [made |-> FALSE, action |-> Act(None, None, None),
                 mem |-> [t |-> "None", s |-> <<>>], action_code |-> <<>>]
NoEnv        == [created |-> FALSE, closed |-> FALSE, sigint |-> FALSE,
                 late_sigint |-> FALSE]

NoLocals     == [caller |-> None, max_retries |-> 0, raw_df |-> <<>>, bid_index |-> <<>>,
                 current_steps |-> <<>>, validation_errors |-> Unbound, i |-> 0,
                 gen_calls |-> 0]
NoTask       == [obs |-> <<>>, loop_idx |-> 0, steps |-> <<>>, k |-> 0,
                 extract_memory |-> [t |-> "None", s |-> <<>>], env |-> NoEnv,
                 completed_logic_refs |-> {}, once_completed |-> {}]
NoHist       == [validated |-> NoValidation, gen_errors |-> 0,
                 last_call |-> NoCall, acted |-> FALSE,
                 raw_value |-> [t |-> "None", s |-> <<>>],
                 index_calls |-> 0]

MainIdle ==
    /\ pc = "idle" /\ rl = NoLocals /\ plan_result = NoResult
    /\ task = NoTask /\ hist = NoHist

FnIdle == inp = None /\ out = None /\ phase = "idle"

(***************************************************************************)
(* validate_plan under check: SpecValidate                                 *)
(*                                                                         *)
(* The page holds the control of field A (b1), a passive label (b2) and    *)
(* the control of field B (b3).  AuditInputs varies the live state of b1   *)
(* and the target of A in full against a few plans; PlanInputs varies the  *)
(* plan in full against a few live states.                                 *)
(***************************************************************************)
MaxActions == 2      \* longest plan drawn, in actions

Element(bid, role, tag, value, innerT, required, checked, cls) ==
    [BID |-> bid, Role |-> role, Tag |-> tag, Value |-> value, InnerT |-> innerT,
     required |-> required, checked |-> checked, Class |-> cls,
     Label_L |-> <<>>, Label_A |-> <<>>, Label_AX |-> <<>>, Label_P |-> <<>>,
     Vis |-> 1, BBox |-> BBox(100, 200, 80, 20), Clickable |-> FALSE,
     focused |-> FALSE, haspopup |-> FALSE]

Labelled(el, label_l) == [el EXCEPT !.Label_L = label_l, !.Label_AX = label_l]

LabelElement == Element("b2", "LabelText", "LABEL", <<>>, <<"A">>, FALSE, FALSE, <<>>)

Page(value1, required1, checked1, cls1, value3) ==
    << Element("b1", "checkbox", "INPUT", value1, <<>>, required1, checked1, cls1),
       LabelElement,
       Element("b3", "textbox", "INPUT", value3, <<>>, FALSE, FALSE, <<>>) >>

Targets    == {S_empty, S_blank, S_true, S_True, S_false, S_X}
LiveValues == {S_empty, S_blank, S_Dash_None, S_NULL, S_X, S_on}
EntriesA   == {NOT_FOUND, Binding("b1"), Binding("b9"), StrEntry}

\* FIELDS with A alone, or with A and B (B's target is "X")
FieldSpecs(targetA) ==
    { [f \in {"A"} |-> targetA],
      [f \in {"A", "B"} |-> IF f = "A" THEN targetA ELSE S_X] }

\* entry Absent for A: the index has no key A
IndexFor(fields_spec, entryA, entryB) ==
    [f \in DOMAIN fields_spec \ (IF entryA = Absent THEN {"A"} ELSE {}) |->
        IF f = "A" THEN entryA ELSE entryB]

ActionPool ==
    { Act("click", "b1", "A"),
      Act("click", "b1", None),
      With(Act("fill", "b3", "B"), "value", S_X),
      Act("click", "b2", "A"),
      Act("click", "b2", None),
      Act("click", "b7", None),
      Act("click", "b3", "B"),
      Act("teleport", "b1", None),
      Act("dblclick", "b1", None),
      Act("teleport", "b2", "A"),
      With(Act("extractLLM", None, None), "instruction", S_X),
      Act("extractLLM", None, None),
      With(Act("send_msg_to_user", None, None), "message", S_X),
      Act("scroll", None, None),
      With(Act("scroll", None, None), "direction", "down") }

\* the sequences of at most m actions
ActionSeqs(m) == UNION {[1..n -> ActionPool] : n \in 0..m}

\* the step groupings of a sequence of actions: one step, or (for a pair)
\* the first action in a step of its own
PlansOf(as) ==
    IF as = <<>> THEN { <<>> }
    ELSE { << Step("S1", as) >> } \cup
         (IF Len(as) = 2
          THEN { << Step("S1", <<Head(as)>>), Step("S2", Tail(as)) >> }
          ELSE {})

Plans(m) == UNION {PlansOf(as) : as \in ActionSeqs(m)}

AuditPlans ==
    { <<>>,
      << Step("S1", << Act("click", "b1", "A") >>) >>,
      << Step("S1", << With(Act("send_msg_to_user", None, None), "message", S_X) >>) >> }

ValidateInput(elements, fields_spec, bid_index, concrete_steps) ==
    [elements |-> elements, fields_spec |-> fields_spec, bid_index |-> bid_index,
     concrete_steps |-> concrete_steps]

AuditInputs ==
    { ValidateInput(Page(v, r, c, k, <<>>), fs, IndexFor(fs, e, Binding("b3")), p) :
        v \in LiveValues, r \in BOOLEAN, c \in BOOLEAN, k \in {S_empty, S_is_checked},
        fs \in UNION {FieldSpecs(t) : t \in Targets}, e \in EntriesA, p \in AuditPlans }

PlanInputs(m) ==
    { ValidateInput(pg, fs, IndexFor(fs, e, Binding("b3")), p) :
        pg \in { Page(S_empty, TRUE, c, S_empty, S_empty) : c \in BOOLEAN } \cup { <<>> },
        fs \in UNION {FieldSpecs(t) : t \in {S_true, S_X}},
        e \in {NOT_FOUND, Binding("b1"), StrEntry, Absent},
        p \in Plans(m) }

\* both controls in their target state
SatisfiedInputs(m) ==
    { ValidateInput(Page(S_empty, TRUE, TRUE, S_empty, S_X), fs,
                    IndexFor(fs, Binding("b1"), Binding("b3")), p) :
        fs \in UNION {FieldSpecs(t) : t \in {S_true, S_X}},
        p \in Plans(m) }

ValidateInit ==
    /\ \/ inp \in AuditInputs
       \/ inp \in PlanInputs(MaxActions)
       \/ inp \in SatisfiedInputs(MaxActions)
    /\ out = None
    /\ phase = "in"
    /\ MainIdle

\* one call of validate_plan on the table analyze() builds from the page
ValidateCall ==
    /\ phase = "in"
    /\ LET raw_df == analyze(inp.elements) IN
       out' = [result    |-> validate_plan(inp.concrete_steps, inp.fields_spec,
                                           inp.bid_index, raw_df),
               completed |-> completed_logic_refs(inp.fields_spec, inp.bid_index, raw_df)]
    /\ phase' = "out"
    /\ UNCHANGED <<inp, rvars, tvars>>

ValidateNext == ValidateCall

SpecValidate == ValidateInit /\ [][ValidateNext]_vars

(***************************************************************************)
(* Claims about validate_plan (checked under SpecValidate)                 *)
(***************************************************************************)
\* the element of the page an index entry resolves to
Resolved(f) ==
    /\ index_get(inp.bid_index, f).kind = "dict"
    /\ \E i \in DOMAIN inp.elements : inp.elements[i].BID = index_get(inp.bid_index, f).bid

LiveElement(f) ==
    inp.elements[CHOOSE i \in DOMAIN inp.elements :
                    inp.elements[i].BID = index_get(inp.bid_index, f).bid]

ReportedMissing(f) ==
    \E i \in DOMAIN out.result.errors :
        out.result.errors[i].kind = "missing" /\ f \in out.result.errors[i].fields

PlanTypes == {a.action.action_type : a \in {plan_actions(inp.concrete_steps)[i] :
                                              i \in DOMAIN plan_actions(inp.concrete_steps)}}

\* C6: for a boolean-string target with a resolved entry, the field is satisfied
\* exactly when the live checked state equals the target (the other signals of
\* the heuristic, Value and Class, being empty).
C6_BooleanAuditSymmetric ==
    phase = "out" =>
        \A f \in DOMAIN inp.fields_spec :
            (/\ inp.fields_spec[f] \in {S_true, S_false}
             /\ Resolved(f)
             /\ LiveElement(f).Value = <<>>
             /\ LiveElement(f).Class = <<>>)
            => ((f \in out.completed) <=>
                (LiveElement(f).checked = (inp.fields_spec[f] = S_true)))

IsNullPlaceholder(v) == str_lower(v) \in {S_none, S_dash_none, S_null}

\* C7 (as the claim words it): an empty-target field resolved to a row is satisfied iff the
\* live Value is empty or a null placeholder, any other non-empty Value leaving
\* it unsatisfied.
C7_EmptyTargetAsStated ==
    phase = "out" =>
        \A f \in DOMAIN inp.fields_spec :
            (inp.fields_spec[f] = <<>> /\ Resolved(f))
            => ((f \in out.completed) <=>
                (LiveElement(f).Value = <<>> \/ IsNullPlaceholder(LiveElement(f).Value)))

\* C7 (trimmed comparison): an empty-target field resolved to a row is
\* satisfied iff the live Value, once surrounding whitespace is trimmed, is empty
\* or a null placeholder;
\* a satisfied field is never reported missing.
C7_EmptyTargetTrimmed ==
    phase = "out" =>
        \A f \in DOMAIN inp.fields_spec :
            (inp.fields_spec[f] = <<>> /\ Resolved(f))
            => /\ (f \in out.completed) <=>
                  (\/ str_strip(LiveElement(f).Value) = <<>>
                   \/ IsNullPlaceholder(str_strip(LiveElement(f).Value)))
               /\ (f \in out.completed) => ~ReportedMissing(f)

C7_Witness ==
    /\ phase = "out"
    /\ inp.fields_spec["A"] = <<>>
    /\ Resolved("A")
    /\ LiveElement("A").Value = S_Dash_None
    /\ "A" \in out.completed
    /\ "B" \in DOMAIN inp.fields_spec /\ ReportedMissing("B") /\ ~ReportedMissing("A")

Unreferenced(f) ==
    \A i \in DOMAIN plan_actions(inp.concrete_steps) :
        plan_actions(inp.concrete_steps)[i].action.logic_ref # f

dumps_has_NOT_FOUND(incomplete_index) ==
    \E k \in DOMAIN incomplete_index :
        \/ incomplete_index[k].kind = "NOT_FOUND"
        \/ str_contains(incomplete_index[k].label, S_NOT_FOUND)

\* Oracle responses (data, err) of connector.fetch_from_api
OracleError      == [kind |-> "error", data |-> <<>>]
OracleNonMapping == [kind |-> "nonmapping", data |-> <<>>]
OracleMapping(d) == [kind |-> "dict", data |-> d]

\* is the oracle called at all?
refine_calls_oracle(incomplete_index) == dumps_has_NOT_FOUND(incomplete_index)

refine_bid_index_full_update(incomplete_index, resp) ==
    IF ~dumps_has_NOT_FOUND(incomplete_index) THEN incomplete_index
    ELSE IF resp.kind = "dict" /\ DOMAIN resp.data # {}
    THEN [k \in DOMAIN incomplete_index \cup DOMAIN resp.data |->
             IF k \in DOMAIN resp.data THEN resp.data[k] ELSE incomplete_index[k]]
    ELSE incomplete_index

refine_bid_index_with_llm(incomplete_index, resp) ==
    IF ~dumps_has_NOT_FOUND(incomplete_index) THEN incomplete_index
    ELSE IF resp.kind = "dict" /\ DOMAIN resp.data # {}
    THEN [k \in DOMAIN incomplete_index |->
             IF k \in DOMAIN resp.data THEN resp.data[k] ELSE incomplete_index[k]]
    ELSE incomplete_index

(***************************************************************************)
(* refine_bid_index_with_llm under check: SpecRefine                       *)
(***************************************************************************)
MaxFields == 2       \* most fields of a drawn field index

FieldNames == <<"A", "B", "C", "D">>
IndexKeys(n) == {FieldNames[i] : i \in 1..n}

IndexEntries == {NOT_FOUND, Binding("b1"), BindingL("b3", S_NOT_FOUND)}
Indexes == UNION {[IndexKeys(n) -> IndexEntries] : n \in 0..MaxFields}

\* the oracle answers with any keys, known or not ("Z"), and any values
OracleKeys   == IndexKeys(MaxFields) \cup {"Z"}
OracleValues == {Binding("b5"), NOT_FOUND, StrEntry, NullEntry}
OracleMaps   == UNION {[K -> OracleValues] : K \in SUBSET OracleKeys}
IndexResponses == {OracleError, OracleNonMapping} \cup {OracleMapping(d) : d \in OracleMaps}

RefineInit ==
    /\ inp \in [incomplete_index : Indexes, resp : IndexResponses]
    /\ out = None
    /\ phase = "in"
    /\ MainIdle

RefineCall ==
    /\ phase = "in"
    /\ out' = [bid_index |-> refine_bid_index_with_llm(inp.incomplete_index, inp.resp),
               called    |-> refine_calls_oracle(inp.incomplete_index)]
    /\ phase' = "out"
    /\ UNCHANGED <<inp, rvars, tvars>>

RefineNext == RefineCall

SpecRefine == RefineInit /\ [][RefineNext]_vars

\* C9: every entry that was resolved before the call is unchanged after it,
\* whatever the oracle answered.
C9_ResolvedEntriesKept ==
    phase = "out" =>
        \A k \in DOMAIN inp.incomplete_index :
            inp.incomplete_index[k].kind # "NOT_FOUND"
            => (k \in DOMAIN out.bid_index /\ out.bid_index[k] = inp.incomplete_index[k])

\* C10: the key set of the index is the same before and after the call, and an
\* oracle error or a non-mapping answer leaves the index unchanged.
C10_KeySetKept ==
    phase = "out" =>
        /\ DOMAIN out.bid_index = DOMAIN inp.incomplete_index
        /\ inp.resp.kind # "dict" => out.bid_index = inp.incomplete_index

C10_Witness ==
    /\ phase = "out"
    /\ out.called
    /\ inp.resp.kind = "dict"
    /\ "Z" \in DOMAIN inp.resp.data
    /\ DOMAIN inp.resp.data \cap DOMAIN inp.incomplete_index # {}
    /\ DOMAIN inp.incomplete_index \ DOMAIN inp.resp.data # {}
    /\ out.bid_index # inp.incomplete_index

(***************************************************************************)
(* ConcretePlanner.build_bid_index, part A (the fields of the              *)
(* specification).  Part B adds the intent-driven keys only for the        *)
(* SEARCH / CREATE / UPDATE families; the manifests modelled carry the     *)
(* intent "GENERAL", for which it adds nothing.                            *)
(***************************************************************************)
\* field_key.lower().replace("_", " ")
S_Category == <<"C","a","t","e","g","o","r","y">>
S_Unit_Cost == <<"U","n","i","t"," ","C","o","s","t">>
S_Cost_USD  == <<"C","o","s","t"," ","(","U","S","D",")">>
S_cost_usd  == <<"c","o","s","t"," ","u","s","d">>

\* field_key.lower().replace("_", " ") over the field names that occur
norm_key(field_key) ==
    CASE field_key = "A" -> <<"a">>
      [] field_key = "B" -> <<"b">>
      [] field_key = "C" -> <<"c">>
      [] field_key = "D" -> <<"d">>
      [] field_key = "Category"   -> str_lower(S_Category)
      [] field_key = "Unit_Cost"  -> str_lower(S_Unit_Cost)
      [] field_key = "Cost (USD)" -> str_lower(S_Cost_USD)

\* Series.str.contains(pat, case=False) takes pat as a regular expression.
\* For patterns of letters, spaces and balanced groups "( )" the expression
\* matches the text of the pattern without its parentheses.
regex_literal(pat) == SelectSeq(pat, LAMBDA ch : ch \notin {"(", ")"})

regex_contains(text, pat) == str_contains(str_lower(text), str_lower(regex_literal(pat)))

tag_lower(t) ==
    CASE t = "INPUT"  -> "input"
      [] t = "LABEL"  -> "label"
      [] t = "SPAN"   -> "span"
      [] t = "SELECT" -> "select"
      [] t = "BUTTON" -> "button"
      [] t = "TEXTAREA" -> "textarea"
      [] t = "A"      -> "a"
      [] t = "DIV"    -> "div"
      [] OTHER        -> t

INPUT_ROLES == {"input", "textarea", "select", "combobox", "checkbox", "radio",
                "searchbox", "textbox"}
INPUT_TAGS  == {"input", "select", "textarea", "button"}

\* the mask over search_cols, case-insensitive
label_match(row, key) ==
    \E col \in {row.Label_L, row.Label_A, row.Label_AX, row.InnerT, row.Label_P} :
        regex_contains(col, key)

score_row(row, key) ==
    LET role == role_lower(row.Role)
        tag  == tag_lower(row.Tag)
    IN  (IF role \in INPUT_ROLES \/ tag \in INPUT_TAGS THEN 150 ELSE 0)
      + (IF role \in {"none", "label", "text"} \/ tag = "label" THEN -20 ELSE 0)
      + (IF row.Vis > 0 THEN 50 ELSE 0)
      + (IF key = str_lower(row.Label_L) THEN 20 ELSE 0)

ACCEPT_SCORE == 50

\* matches.sort_values('score', ascending=False).iloc[0]: the first row of
\* maximal score
best_match(raw_df, key) ==
    CHOOSE i \in DOMAIN raw_df :
        /\ label_match(raw_df[i], key)
        /\ \A j \in DOMAIN raw_df :
              label_match(raw_df[j], key) =>
                  \/ score_row(raw_df[j], key) < score_row(raw_df[i], key)
                  \/ score_row(raw_df[j], key) = score_row(raw_df[i], key) /\ i <= j

build_bid_index(fields_spec, raw_df) ==
    [f \in DOMAIN fields_spec |->
        LET key == norm_key(f) IN
        IF \E i \in DOMAIN raw_df : label_match(raw_df[i], key)
        THEN LET best == raw_df[best_match(raw_df, key)] IN
             IF score_row(best, key) >= ACCEPT_SCORE
             THEN BindingL(best.BID, IF best.Label_L # <<>> THEN best.Label_L ELSE best.InnerT)
             ELSE NOT_FOUND
        ELSE NOT_FOUND]

\* --- B. targets added for the mission intent ---
INTENT_MAPPING(raw_intent) ==
    CASE raw_intent \in {"FIND", "QUERY", "LOOK FOR", "SEARCH", "GET"} -> "SEARCH_ANSWER"
      [] raw_intent \in {"MAKE", "NEW", "INSERT", "ADD"}               -> "CREATE"
      [] raw_intent \in {"EDIT", "MODIFY", "CHANGE", "FIX"}            -> "UPDATE"
      [] raw_intent \in {"VIEW", "READ", "DISPLAY", "CHECK"}           -> "SHOW"
      [] OTHER                                                         -> None

\* intent_mapping.get(raw_intent, raw_intent), raw_intent in upper case
normalized_intent(raw_intent) ==
    IF INTENT_MAPPING(raw_intent) # None THEN INTENT_MAPPING(raw_intent) ELSE raw_intent

get_bbox_coords(bbox_val) == IF bbox_val.present THEN bbox_val ELSE NoBBox

S_search  == <<"s","e","a","r","c","h">>
S_minimum == <<"m","i","n","i","m","u","m">>
S_Submit  == <<"S","u","b","m","i","t">>

search_mask(row) ==
    \/ str_contains(str_lower(row.Label_P), S_search)
    \/ str_contains(str_lower(row.Label_P), S_minimum)
    \/ str_contains(str_lower(row.InnerT), S_search)
    \/ row.Role \in {"search", "searchbox"}

score_search_priority(row) ==
    100 + (IF get_bbox_coords(row.BBox).y > 150 THEN 400 ELSE 0)
        + (IF get_bbox_coords(row.BBox).w > 250 THEN 150 ELSE 0)
        + (IF str_contains(str_lower(row.Label_P), S_minimum) THEN 300 ELSE 0)

search_candidate(row) == search_mask(row) /\ row.Vis > 0

\* searches.sort_values('p_score', ascending=False).iloc[0]
best_search(raw_df) ==
    CHOOSE i \in DOMAIN raw_df :
        /\ search_candidate(raw_df[i])
        /\ \A j \in DOMAIN raw_df :
              search_candidate(raw_df[j]) =>
                  \/ score_search_priority(raw_df[j]) < score_search_priority(raw_df[i])
                  \/ /\ score_search_priority(raw_df[j]) = score_search_priority(raw_df[i])
                     /\ i <= j

\* index_map["PRIMARY_SEARCH_INPUT"], Absent when the key is not set
primary_search_input(raw_intent, raw_df) ==
    IF /\ normalized_intent(raw_intent) \in {"SEARCH_ANSWER", "SHOW", "ANALYZE"}
       /\ \E i \in DOMAIN raw_df : search_candidate(raw_df[i])
    THEN Binding(raw_df[best_search(raw_df)].BID)
    ELSE Absent

EXEC_KEYWORDS ==
    { <<"s","u","b","m","i","t">>, <<"s","a","v","e">>, <<"c","r","e","a","t","e">>,
      <<"i","n","s","e","r","t">>, <<"o","r","d","e","r">>, <<"s","e","n","d">>,
      <<"c","o","n","f","i","r","m">>, <<"u","p","d","a","t","e">> }

INFO_KEYWORDS ==
    { <<"v","i","e","w">>, <<"s","h","o","w">>, <<"d","e","t","a","i","l">>,
      <<"l","i","s","t">>, <<"l","i","n","k","e","d">>, <<"a","c","c","o","u","n","t">>,
      <<"s","u","b","s","c","r","i","p","t","i","o","n">>,
      <<"h","i","s","t","o","r","y">>, <<"l","o","g">>, <<"i","n","f","o">>,
      <<"h","e","l","p">> }

EMPHASIS_CLASSES ==
    { <<"p","r","i","m","a","r","y">>, <<"s","u","c","c","e","s","s">>,
      <<"a","c","t","i","o","n">>, <<"s","u","b","m","i","t">>, <<"m","a","i","n">> }

contains_any(text, words) == \E word \in words : str_contains(str_lower(text), word)

btn_candidate(row) ==
    /\ contains_any(row.InnerT, EXEC_KEYWORDS) \/ contains_any(row.Label_A, EXEC_KEYWORDS)
    /\ row.Vis > 0
    /\ row.Tag \in {"BUTTON", "A"}

INFO_PENALTY == 1500

score_button_priority(row) ==
    100 - (IF contains_any(row.InnerT, INFO_KEYWORDS) THEN INFO_PENALTY ELSE 0)
        + (IF get_bbox_coords(row.BBox).y < 150 /\ get_bbox_coords(row.BBox).x > 800
           THEN 1000 ELSE 0)
        + (IF contains_any(row.Class, EMPHASIS_CLASSES) THEN 500 ELSE 0)
        + (IF str_strip(str_lower(row.InnerT)) \in EXEC_KEYWORDS THEN 300 ELSE 0)

\* btns.sort_values('b_score', ascending=False).iloc[0]
best_btn(raw_df) ==
    CHOOSE i \in DOMAIN raw_df :
        /\ btn_candidate(raw_df[i])
        /\ \A j \in DOMAIN raw_df :
              btn_candidate(raw_df[j]) =>
                  \/ score_button_priority(raw_df[j]) < score_button_priority(raw_df[i])
                  \/ /\ score_button_priority(raw_df[j]) = score_button_priority(raw_df[i])
                     /\ i <= j

\* index_map["SUBMIT_BUTTON"], Absent when the key is not set
submit_button(raw_intent, raw_df) ==
    IF /\ normalized_intent(raw_intent) \in {"CREATE", "UPDATE", "ORDER", "ADMIN", "INSERT"}
       /\ \E i \in DOMAIN raw_df : btn_candidate(raw_df[i])
    THEN LET best == raw_df[best_btn(raw_df)] IN
         IF score_button_priority(best) > 0
         THEN BindingL(best.BID,
                       IF str_strip(best.InnerT) # <<>> THEN str_strip(best.InnerT)
                       ELSE S_Submit)
         ELSE Absent
    ELSE Absent

(***************************************************************************)
(* Autonomus_agent_main.build_action_code                                  *)
(*                                                                         *)
(* A command text is a sequence of calls; a call records the function, the *)
(* form of its argument list and the arguments.                            *)
(***************************************************************************)
S_extractValue == <<"e","x","t","r","a","c","t","V","a","l","u","e">>
S_Done         == <<"D","o","n","e",".">>
S_V            == <<"V">>

\* Python values passed through repr(): a string or None
PyStr(s) == [t |-> "str", s |-> s]
PyNone   == [t |-> "None", s |-> <<>>]

\* str.replace(old, new)
RECURSIVE str_replace(_, _, _)
str_replace(s, old, new) ==
    IF Len(s) < Len(old) THEN s
    ELSE IF SubSeq(s, 1, Len(old)) = old
    THEN new \o str_replace(SubSeq(s, Len(old) + 1, Len(s)), old, new)
    ELSE <<Head(s)>> \o str_replace(Tail(s), old, new)

\* bind_value: substitute the placeholder when a (truthy) extracted value exists
bind_value(v, last_extracted_value) ==
    IF /\ last_extracted_value.t = "str" /\ last_extracted_value.s # <<>>
       /\ v.t = "str" /\ str_contains(v.s, S_extractValue)
    THEN PyStr(str_replace(v.s, S_extractValue, last_extracted_value.s))
    ELSE v

\* action.get(key) for the text payload keys
payload(action, key) ==
    IF key \notin action.keys THEN PyNone
    ELSE CASE key = "value"       -> PyStr(action.value)
           [] key = "options"     -> PyStr(action.options)
           [] key = "option"      -> PyStr(action.option)
           [] key = "message"     -> PyStr(action.message)
           [] key = "instruction" -> PyStr(action.instruction)

truthy(v) == v.t = "str" /\ v.s # <<>>

\* a or b (Python)
py_or(a, b) == IF truthy(a) THEN a ELSE b

Call(fn, form, bid, arg, dx, dy) ==
    [fn |-> fn, form |-> form, bid |-> bid, arg |-> arg, dx |-> dx, dy |-> dy]

\* the action types build_action_code has a branch for
TRANSLATED_ACTIONS ==
    {"extractLLM", "select_option", "send_msg_to_user", "fill", "scroll",
     "click", "hover", "dblclick", "focus"}

fill_as_click_untrimmed(raw_val) == str_lower(raw_val.s) \in {S_true, S_false}

\* the boolean rescue of a fill: str(raw_val).strip().lower() in ["true", "false"]
fill_as_click(raw_val) == str_lower(str_strip(raw_val.s)) \in {S_true, S_false}

SCROLL_UNIT == 500

build_action_code(action, last_extracted_value) ==
    LET a_type == action.action_type
        bid    == action.bid
    IN
    IF a_type = "extractLLM" THEN << >>
    ELSE IF a_type = "select_option"
    THEN LET val == py_or(payload(action, "options"),
                          py_or(payload(action, "option"), payload(action, "value")))
         IN  << Call("select_option", "bid=,options=", bid,
                     bind_value(val, last_extracted_value), 0, 0) >>
    ELSE IF a_type = "send_msg_to_user"
    THEN LET msg == py_or(payload(action, "message"),
                          py_or(payload(action, "value"), PyStr(S_Done)))
         IN  << Call("send_msg_to_user", "arg", None,
                     bind_value(msg, last_extracted_value), 0, 0) >>
    ELSE IF a_type = "fill"
    THEN LET raw_val   == bind_value(IF "value" \in action.keys THEN PyStr(action.value)
                                     ELSE PyStr(<<>>), last_extracted_value)
         IN  IF fill_as_click(raw_val)
             THEN << Call("click", "bid=", bid, PyNone, 0, 0) >>
             ELSE << Call("fill", "bid=,value=", bid, raw_val, 0, 0) >>
    ELSE IF a_type = "scroll"
    THEN LET dx  == IF "dx" \in action.keys THEN action.dx ELSE 0
             dy0 == IF "dy" \in action.keys THEN action.dy ELSE 0
             direction == IF "direction" \in action.keys THEN action.direction ELSE "down"
             dy  == IF dy0 # 0 THEN dy0
                    ELSE IF direction = "down" THEN SCROLL_UNIT
                    ELSE IF direction = "up" THEN -SCROLL_UNIT
                    ELSE 0
         IN  << Call("scroll", "dx,dy", None, PyNone, dx, dy) >>
    ELSE IF bid # None /\ bid # ""
    THEN IF a_type \in {"click", "hover", "dblclick", "focus"}
         THEN << Call(a_type, "bid", bid, PyNone, 0, 0) >>
         ELSE IF "value" \in action.keys
         THEN << Call(a_type, "bid,arg", bid,
                      bind_value(PyStr(action.value), last_extracted_value), 0, 0) >>
         ELSE << Call(a_type, "bid", bid, PyNone, 0, 0) >>
    ELSE << Call(a_type, "", None, PyNone, 0, 0) >>

\* the literal assigned to action_code right before env.step (line 465)
HARDCODED_ACTION_CODE ==
    << Call("click", "bid", "179", PyNone, 0, 0),
       Call("focus", "bid", "274", PyNone, 0, 0),
       Call("click", "bid", "274", PyNone, 0, 0) >>

(***************************************************************************)
(* Autonomus_agent_main.inject_final_hover                                 *)
(***************************************************************************)
SAFETY_REF == "Safety Focus-Out before Final Click"

inject_final_hover_same_target_hover(concrete_steps) ==
    IF concrete_steps = <<>> THEN concrete_steps
    ELSE LET n       == Len(concrete_steps)
             actions == concrete_steps[n].actions
             m       == Len(actions)
         IN  IF m = 0 THEN concrete_steps
             ELSE IF actions[m].action_type # "click" THEN concrete_steps
             ELSE LET has_hover == /\ m >= 2
                                   /\ actions[m - 1].action_type = "hover"
                                   /\ actions[m - 1].bid = actions[m].bid
                  IN  IF has_hover THEN concrete_steps
                      ELSE [concrete_steps EXCEPT ![n].actions =
                               SubSeq(actions, 1, m - 1)
                               \o << Act("focus", actions[m].bid, SAFETY_REF) >>
                               \o << actions[m] >>]

inject_final_hover(concrete_steps) ==
    IF concrete_steps = <<>> THEN concrete_steps
    ELSE LET n       == Len(concrete_steps)
             actions == concrete_steps[n].actions
             m       == Len(actions)
         IN  IF m = 0 THEN concrete_steps
             ELSE IF actions[m].action_type # "click" THEN concrete_steps
             ELSE LET has_hover == m >= 2 /\ actions[m - 1].action_type = "click"
                  IN  IF has_hover THEN concrete_steps
                      ELSE [concrete_steps EXCEPT ![n].actions =
                               SubSeq(actions, 1, m - 1)
                               \o << Act("focus", actions[m].bid, SAFETY_REF) >>
                               \o << actions[m] >>]

(***************************************************************************)
(* ConcretePlanner.run_repair_loop as a state machine.                     *)
(*                                                                         *)
(* Every oracle call and every validate_plan call is one step.  pc names   *)
(* the statement about to run:                                             *)
(*   "build_bid_index", "refine_bid_index", "generate" (an oracle call of  *)
(*   generate_concrete_plan), "validate" (the head of a loop iteration),   *)
(*   "repair" (an oracle call of refine_concrete_plan), "exhausted" (the   *)
(*   return after the loop), and, for a direct caller, "returned".         *)
(***************************************************************************)
MaxRetries          == 3     \* largest max_retries a direct caller passes
DEFAULT_MAX_RETRIES == 3     \* the default of the max_retries parameter
GEN_ATTEMPTS        == 3     \* fetch_from_api calls written out in a generation

\* the manifest's FIELDS: A is a checkbox to tick, B a text to enter, and C
\* has no control on the page
FIELDS == [f \in {"A", "B", "C"} |-> IF f = "A" THEN S_true ELSE S_X]

MainPage(checked1, value3) ==
    << Labelled(Element("b1", "checkbox", "INPUT", <<>>, <<>>, TRUE, checked1, <<>>), <<"A">>),
       LabelElement,
       Labelled(Element("b3", "textbox", "INPUT", value3, <<>>, FALSE, FALSE, <<>>), <<"B">>) >>

S_C_NOT_FOUND == <<"C", " ">> \o S_NOT_FOUND

\* the main page with a text control for C, labelled label4
FullPage(label4) ==
    MainPage(TRUE, S_X)
        \o << Labelled(Element("b4", "textbox", "INPUT", <<>>, <<>>, FALSE, FALSE, <<>>),
                       label4) >>

Pages == { MainPage(FALSE, <<>>), MainPage(TRUE, <<>>), MainPage(TRUE, S_X),
           FullPage(<<"C">>), FullPage(S_C_NOT_FOUND) }

\* plans the oracle may answer with
PlanPool ==
    { <<>>,
      << Step("S1", << With(Act("fill", "b3", "B"), "value", S_X),
                       Act("click", "b1", "A") >>) >>,
      << Step("S1", << Act("teleport", "b1", None) >>) >>,
      << Step("S1", << Act("click", "b2", "C") >>),
         Step("S2", << With(Act("fill", "b3", "B"), "value", S_extractValue) >>) >>,
      << Step("S1", << With(Act("extractLLM", None, None), "instruction", S_X),
                       With(Act("send_msg_to_user", None, None), "message",
                            S_extractValue) >>) >> }

PlanResponses ==
    { OracleError, OracleNonMapping } \cup
    { OracleMapping([concrete_steps |-> p]) : p \in PlanPool }

IndexFixes ==
    { OracleError, OracleNonMapping,
      OracleMapping([f \in {"C"} |-> Binding("b3")]),
      OracleMapping([f \in {"A", "C"} |-> IF f = "A" THEN Binding("b2") ELSE NOT_FOUND]) }

\* the dictionaries run_repair_loop returns
error_result ==
    [keys |-> {"concrete_steps", "error"}, concrete_steps |-> <<>>,
     validation_errors |-> <<>>, attempts |-> 0, raised |-> FALSE]

accepted_result(current_steps, i) ==
    [keys |-> {"concrete_steps", "thought", "bid_index", "attempts"},
     concrete_steps |-> current_steps, validation_errors |-> <<>>,
     attempts |-> i + 1, raised |-> FALSE]

exhausted_result_without_plan(current_steps, validation_errors) ==
    [keys |-> {"concrete_steps", "thought", "bid_index", "validation_errors"},
     concrete_steps |-> <<>>, validation_errors |-> validation_errors,
     attempts |-> 0, raised |-> FALSE]

exhausted_result(current_steps, validation_errors) ==
    [keys |-> {"concrete_steps", "thought", "bid_index", "validation_errors"},
     concrete_steps |-> current_steps, validation_errors |-> validation_errors,
     attempts |-> 0, raised |-> FALSE]

\* an exception leaves run_repair_loop
raised_result == [NoResult EXCEPT !.raised = TRUE]

accepts_one_error(validation_errors) == Len(validation_errors) <= 1

\* "if not validation_errors"
accepts(validation_errors) == validation_errors = <<>>

calls_again_after_third(gen_calls) == gen_calls + 1 < GEN_ATTEMPTS + 1

\* after an erroring call: is another of the written-out calls left?
calls_again(gen_calls) == gen_calls + 1 < GEN_ATTEMPTS

\* "if i == max_retries - 1: break"
gives_up(i, max_retries) == i = max_retries - 1

\* the head of "for i in range(max_retries)"
loop_head(i, max_retries) == IF i < max_retries THEN "validate" ELSE "exhausted"

Return(result) ==
    /\ plan_result' = result
    /\ pc' = IF rl.caller = "task"
             THEN (IF result.raised THEN "finally" ELSE "plan_received")
             ELSE "returned"

BuildIndex ==
    /\ pc = "build_bid_index"
    /\ rl' = [rl EXCEPT !.bid_index = build_bid_index(FIELDS, rl.raw_df)]
    /\ pc' = "refine_bid_index"
    /\ UNCHANGED <<plan_result, task, hist, fnvars>>

RefineIndex ==
    /\ pc = "refine_bid_index"
    /\ \E resp \in IndexFixes :
          rl' = [rl EXCEPT !.bid_index = refine_bid_index_with_llm(rl.bid_index, resp),
                           !.gen_calls = 0]
    /\ hist' = IF refine_calls_oracle(rl.bid_index)
               THEN [hist EXCEPT !.index_calls = @ + 1]
               ELSE hist
    /\ pc' = "generate"
    /\ UNCHANGED <<plan_result, task, fnvars>>

\* one fetch_from_api call of generate_concrete_plan / refine_concrete_plan;
\* next_i is the loop variable with which the loop is entered on success
OracleCall(next_i) ==
    \E resp \in PlanResponses :
        IF resp.kind = "error"
        THEN /\ rl' = [rl EXCEPT !.gen_calls = @ + 1]
             /\ hist' = [hist EXCEPT !.gen_errors = @ + 1]
             /\ IF calls_again(rl.gen_calls)
                THEN UNCHANGED <<pc, plan_result>>
                ELSE Return(error_result)
        ELSE IF resp.kind # "dict"
        THEN \* data.get raises; the except clause returns the traceback as error
             /\ rl' = [rl EXCEPT !.gen_calls = @ + 1]
             /\ UNCHANGED hist
             /\ Return(error_result)
        ELSE /\ rl' = [rl EXCEPT !.gen_calls = @ + 1,
                                 !.current_steps = resp.data.concrete_steps,
                                 !.i = next_i]
             /\ UNCHANGED hist
             /\ pc' = loop_head(next_i, rl.max_retries)
             /\ UNCHANGED plan_result

GenerateCall ==
    /\ pc = "generate"
    /\ OracleCall(0)
    /\ UNCHANGED <<task, fnvars>>

Validate ==
    /\ pc = "validate"
    /\ \E v \in {validate_plan(rl.current_steps, FIELDS, rl.bid_index, rl.raw_df)} :
       /\ hist' = [hist EXCEPT !.validated =
                      [n |-> @.n + 1, plan |-> rl.current_steps,
                       errors |-> v.errors, raised |-> v.raised],
                               !.gen_errors = 0]
       /\ IF v.raised
          THEN Return(raised_result) /\ UNCHANGED rl
          ELSE IF accepts(v.errors)
          THEN Return(accepted_result(rl.current_steps, rl.i)) /\ UNCHANGED rl
          ELSE /\ rl' = [rl EXCEPT !.validation_errors = Bound(v.errors),
                                   !.gen_calls = 0]
               /\ pc' = IF gives_up(rl.i, rl.max_retries) THEN "exhausted" ELSE "repair"
               /\ UNCHANGED plan_result
    /\ UNCHANGED <<task, fnvars>>

RepairCall ==
    /\ pc = "repair"
    /\ OracleCall(rl.i + 1)
    /\ UNCHANGED <<task, fnvars>>

\* the return after the loop; validation_errors is unbound when the loop
\* body never ran
ReturnExhausted ==
    /\ pc = "exhausted"
    /\ IF rl.validation_errors.bound
       THEN Return(exhausted_result(rl.current_steps, rl.validation_errors.errors))
       ELSE Return(raised_result)
    /\ UNCHANGED <<rl, task, hist, fnvars>>

RepairInit ==
    /\ pc = "build_bid_index"
    /\ \E m \in 0..MaxRetries, p \in Pages :
          rl = [NoLocals EXCEPT !.caller = "direct", !.max_retries = m,
                                !.raw_df = analyze(p)]
    /\ plan_result = NoResult
    /\ task = NoTask
    /\ hist = NoHist
    /\ FnIdle

RepairNext ==
    \/ BuildIndex
    \/ RefineIndex
    \/ GenerateCall
    \/ Validate
    \/ RepairCall
    \/ ReturnExhausted

SpecRepair == RepairInit /\ [][RepairNext]_vars

\* the loop is sequential code: a step that can be taken is taken
SpecRepairFair == SpecRepair /\ WF_vars(RepairNext)

(***************************************************************************)
(* Claims about run_repair_loop                                            *)
(***************************************************************************)
Returned      == pc = "returned"
Accepted(r)   == "attempts" \in r.keys /\ "validation_errors" \notin r.keys
Exhausted(r)  == "validation_errors" \in r.keys
Failed(r)     == "error" \in r.keys

\* C1: with max_retries >= 1 the loop validates at most max_retries plans
\* and returns; when the last validated plan still has errors and no
\* generation failed, the result carries exactly that plan and exactly the
\* errors validate_plan computed for it.
C1_LoopBoundedLastPlanReturned ==
    /\ [](rl.max_retries >= 1 =>
            /\ hist.validated.n <= rl.max_retries
            /\ (/\ Returned
                /\ hist.validated.n >= 1
                /\ hist.validated.errors # <<>>
                /\ ~Failed(plan_result))
               => /\ Exhausted(plan_result)
                  /\ plan_result.concrete_steps = hist.validated.plan
                  /\ plan_result.validation_errors = hist.validated.errors
                  /\ plan_result.validation_errors =
                        validate_plan(plan_result.concrete_steps, FIELDS,
                                      rl.bid_index, rl.raw_df).errors)
    /\ <>Returned

C1_Witness ==
    /\ Returned
    /\ rl.max_retries >= 2
    /\ hist.validated.n = rl.max_retries
    /\ Exhausted(plan_result)
    /\ plan_result.concrete_steps # <<>>

\* C2: the result is an accepted one exactly when the last validate_plan
\* call was made on the returned plan and returned no error; an accepted
\* plan has no validation error.
C2_AcceptedIffNoErrors ==
    Returned =>
        /\ Accepted(plan_result) <=>
              /\ hist.validated.n >= 1
              /\ ~hist.validated.raised
              /\ hist.validated.errors = <<>>
              /\ hist.validated.plan = plan_result.concrete_steps
              /\ ~plan_result.raised
        /\ Accepted(plan_result) =>
              LET v == validate_plan(plan_result.concrete_steps, FIELDS,
                                     rl.bid_index, rl.raw_df)
              IN  ~v.raised /\ v.errors = <<>>

C2_Witness ==
    /\ Returned
    /\ Accepted(plan_result)
    /\ plan_result.attempts >= 2
    /\ plan_result.concrete_steps # <<>>

\* C3: a generation or a repair makes at most 3 oracle calls, makes another
\* call only after an erroring one, and after 3 erroring calls the loop has
\* returned the error with an empty concrete_steps (nothing was validated
\* since).
C3_ThreeOracleCallsThenError ==
    /\ rl.gen_calls <= 3
    /\ pc \in {"generate", "repair"} => rl.gen_calls = hist.gen_errors /\ rl.gen_calls < 3
    /\ hist.gen_errors = 3 =>
          /\ Returned
          /\ Failed(plan_result)
          /\ plan_result.concrete_steps = <<>>
          /\ ~Exhausted(plan_result) /\ ~Accepted(plan_result)

C3_Witness ==
    /\ Returned
    /\ hist.gen_errors = 3
    /\ hist.validated.n >= 1

(***************************************************************************)
(* Autonomus_agent_main.run_autonomous_task as a state machine.            *)
(*                                                                         *)
(* pc: "start" (environment construction and reset), "goal" (goal          *)
(* analysis), "observe" (head of a perception cycle), the positions of     *)
(* run_repair_loop, "plan_received", "execute" (head of an iteration over  *)
(* the plan's actions), "finally", "end".                                  *)
(***************************************************************************)
MAX_LOOPS == 8

\* what extractor.extract returns
ExtractValues == { PyStr(S_V) }

\* BrowserEnv(...) and env.reset(seed=42); either may raise
CreateEnv ==
    /\ pc = "start"
    /\ \E outcome \in {"constructor raises", "reset raises", "ok"} :
          CASE outcome = "constructor raises" ->
                  /\ pc' = "finally"
                  /\ UNCHANGED task
            [] outcome = "reset raises" ->
                  /\ pc' = "finally"
                  /\ task' = [task EXCEPT !.env.created = TRUE]
            [] outcome = "ok" ->
                  /\ pc' = "goal"
                  /\ \E p \in Pages :
                        task' = [task EXCEPT !.env.created = TRUE, !.obs = p]
    /\ UNCHANGED <<rl, plan_result, hist, fnvars>>

\* goal_analyzer.analyze: an error aborts the mission
AnalyzeGoal ==
    /\ pc = "goal"
    /\ \E error \in BOOLEAN :
          IF error
          THEN pc' = "finally" /\ UNCHANGED task
          ELSE pc' = "observe" /\ task' = [task EXCEPT !.loop_idx = 1]
    /\ UNCHANGED <<rl, plan_result, hist, fnvars>>

\* the text of a field name, over the field names that occur
field_text(field_label) ==
    CASE field_label = "A" -> <<"A">>
      [] field_label = "B" -> <<"B">>
      [] field_label = "C" -> <<"C">>
      [] field_label = "D" -> <<"D">>
      [] field_label = "Category"   -> S_Category
      [] field_label = "Cost (USD)" -> S_Cost_USD

\* the rows of label_matches (lines 341-344)
audit_label_match(row, field_label) ==
    \/ regex_contains(row.Label_L, field_text(field_label))
    \/ regex_contains(row.InnerT, field_text(field_label))

\* the per-cycle audit of one field (lines 336-367): the matching row, or the
\* row after it, holds the target
is_actually_filled(field_label, target_val, raw_df) ==
    \E i \in DOMAIN raw_df :
        /\ audit_label_match(raw_df[i], field_label)
        /\ \/ str_contains(str_strip(raw_df[i].Value), str_strip(target_val))
           \/ str_contains(str_strip(raw_df[i].InnerT), str_strip(target_val))
           \/ /\ i + 1 \in DOMAIN raw_df
              /\ str_strip(target_val) # <<>>
              /\ str_contains(str_strip(raw_df[i + 1].Value), str_strip(target_val))

audit_without_removal(completed, fields_spec, raw_df) ==
    completed \cup {f \in DOMAIN fields_spec : is_actually_filled(f, fields_spec[f], raw_df)}

\* completed_logic_refs after the audit (lines 370-375): filled fields are
\* added, the others removed
audit(completed, fields_spec, raw_df) ==
    (completed \ DOMAIN fields_spec)
        \cup {f \in DOMAIN fields_spec : is_actually_filled(f, fields_spec[f], raw_df)}

\* head of "for loop_idx in range(1, MAX_LOOPS + 1)": analyse the saved
\* observation and call run_repair_loop with the default max_retries
Observe ==
    /\ pc = "observe"
    /\ IF task.loop_idx > MAX_LOOPS
       THEN /\ pc' = "finally"
            /\ UNCHANGED <<rl, plan_result, hist>>
       ELSE /\ pc' = "build_bid_index"
            /\ rl' = [NoLocals EXCEPT !.caller = "task",
                                      !.max_retries = DEFAULT_MAX_RETRIES,
                                      !.raw_df = analyze(task.obs)]
            /\ plan_result' = NoResult
            /\ hist' = NoHist
    /\ task' = IF task.loop_idx > MAX_LOOPS THEN task
               ELSE [task EXCEPT
                       !.completed_logic_refs = audit(@, FIELDS, analyze(task.obs)),
                       !.once_completed = @ \cup audit(task.completed_logic_refs, FIELDS,
                                                       analyze(task.obs))]
    /\ UNCHANGED fnvars

\* lines 399-410: the empty plan without error ends the mission; otherwise
\* the plan is executed as returned
PlanReceived ==
    /\ pc = "plan_received"
    /\ IF plan_result.concrete_steps = <<>> /\ ~Failed(plan_result)
       THEN pc' = "finally" /\ UNCHANGED task
       ELSE /\ pc' = "execute"
            /\ task' = [task EXCEPT !.steps = inject_final_hover(plan_result.concrete_steps),
                                    !.k = 1]
    /\ UNCHANGED <<rl, plan_result, hist, fnvars>>

current_action == plan_actions(task.steps)[task.k].action

HasAction == task.k <= Len(plan_actions(task.steps))

\* the cycle ends; steps is assigned anew before its next use
NextCycle(t) == [t EXCEPT !.loop_idx = @ + 1, !.steps = <<>>, !.k = 0]

\* the plan is used up: next perception cycle
EndOfPlan ==
    /\ pc = "execute"
    /\ ~HasAction
    /\ task' = NextCycle(task)
    /\ pc' = "observe"
    /\ UNCHANGED <<rl, plan_result, hist, fnvars>>

ExtractStep_without_interrupt ==
    /\ pc = "execute"
    /\ HasAction
    /\ current_action.action_type = "extractLLM"
    /\ IF "instruction" \notin current_action.keys
       THEN pc' = "finally" /\ UNCHANGED <<task, hist>>
       ELSE /\ \E raw_value \in ExtractValues :
                  /\ task' = [task EXCEPT !.extract_memory = raw_value, !.k = @ + 1]
                  /\ hist' = [hist EXCEPT !.raw_value = raw_value]
            /\ pc' = "execute"
    /\ UNCHANGED <<rl, plan_result, fnvars>>

\* an extractLLM action: the extracted value is remembered and the cycle is
\* interrupted for replanning; without an instruction the concatenation
\* raises
ExtractStep ==
    /\ pc = "execute"
    /\ HasAction
    /\ current_action.action_type = "extractLLM"
    /\ IF "instruction" \notin current_action.keys
       THEN pc' = "finally" /\ UNCHANGED <<task, hist>>
       ELSE /\ \E raw_value \in ExtractValues :
                  /\ task' = NextCycle([task EXCEPT !.extract_memory = raw_value])
                  /\ hist' = [hist EXCEPT !.raw_value = raw_value]
            /\ pc' = "observe"
    /\ UNCHANGED <<rl, plan_result, fnvars>>

\* any other action: build_action_code, then env.step with the literal
\* assigned at line 465
EnvStep ==
    /\ pc = "execute"
    /\ HasAction
    /\ current_action.action_type # "extractLLM"
    /\ LET built       == build_action_code(current_action, task.extract_memory)
           action_code == HARDCODED_ACTION_CODE     \* replaces built (line 465)
       IN /\ hist' = [hist EXCEPT !.acted = TRUE,
                                  !.last_call = [made |-> TRUE, action |-> current_action,
                                                 mem |-> task.extract_memory,
                                                 action_code |-> action_code]]
          /\ \E outcome \in {"raises", "terminated", "continues"} :
                CASE outcome = "raises" ->
                        \* last_action_error: interrupted
                        /\ task' = NextCycle(task)
                        /\ pc' = "observe"
                  [] outcome = "terminated" ->
                        /\ \E p \in Pages : task' = [task EXCEPT !.obs = p]
                        /\ pc' = "finally"
                  [] outcome = "continues" ->
                        /\ \E p \in Pages : task' = [task EXCEPT !.obs = p, !.k = @ + 1]
                        /\ pc' = "execute"
    /\ UNCHANGED <<rl, plan_result, fnvars>>

\* the module-level env the signal handler reads (line 56); the function
\* assigns its own local env, so the global keeps its initial value
GLOBAL_ENV == None

\* signal_handler: "if env: env.close()" on the global
handler_closes == GLOBAL_ENV # None

finally_closes_unless_sigint(env) == env.created /\ ~env.sigint

\* the finally clause: "if env: env.close()" on the local
finally_closes(env) == env.created

\* SIGINT: signal_handler runs and sys.exit(0) raises SystemExit where the
\* main thread stands.  Inside the try block it is not an Exception, skips
\* the except clause and enters the finally clause; while the finally
\* clause has not yet called close it leaves the function.  During
\* BrowserEnv(...) / env.reset the local env may or may not be assigned.
Interrupt ==
    /\ pc \notin {"idle", "end"}
    /\ IF pc = "finally"
       THEN /\ pc' = "end"
            /\ task' = [task EXCEPT !.env.late_sigint = TRUE,
                                    !.env.closed = handler_closes /\ task.env.created]
       ELSE /\ pc' = "finally"
            /\ \E assigned \in (IF pc = "start" THEN BOOLEAN ELSE {task.env.created}) :
                  task' = [task EXCEPT !.env.sigint = TRUE,
                                      !.env.created = assigned,
                                      !.env.closed = handler_closes /\ assigned]
    /\ UNCHANGED <<rl, plan_result, hist, fnvars>>

Finally ==
    /\ pc = "finally"
    /\ task' = [task EXCEPT !.env.closed = @ \/ finally_closes(task.env)]
    /\ pc' = "end"
    /\ UNCHANGED <<rl, plan_result, hist, fnvars>>

Init ==
    /\ pc = "start"
    /\ rl = NoLocals
    /\ plan_result = NoResult
    /\ task = NoTask
    /\ hist = NoHist
    /\ FnIdle

Next ==
    \/ CreateEnv
    \/ AnalyzeGoal
    \/ Observe
    \/ BuildIndex
    \/ RefineIndex
    \/ GenerateCall
    \/ Validate
    \/ RepairCall
    \/ ReturnExhausted
    \/ PlanReceived
    \/ EndOfPlan
    \/ ExtractStep
    \/ EnvStep
    \/ Interrupt
    \/ Finally

Spec == Init /\ [][Next]_vars

(***************************************************************************)
(* Claims about the task loop                                              *)
(***************************************************************************)
\* C4: no action of a plan that run_repair_loop returned with outstanding
\* validation errors reaches env.step.
C4_FlaggedPlanNeverExecuted ==
    ~(hist.acted /\ Exhausted(plan_result))

\* C5: the command passed to env.step is the one build_action_code produced
\* for the executed action with the current last-extracted value.
C5_CommandIsCompiledAction ==
    hist.last_call.made =>
        hist.last_call.action_code =
            build_action_code(hist.last_call.action, hist.last_call.mem)

(***************************************************************************)
(* inject_final_hover under check: SpecHover                               *)
(*                                                                         *)
(* Plans of up to two steps, each of up to MaxActions actions over two     *)
(* targets.                                                                *)
(***************************************************************************)
HoverActionPool ==
    { Act("click", "b1", None), Act("click", "b2", None), Act("hover", "b2", None),
      Act("focus", "b2", None), With(Act("fill", "b3", "B"), "value", S_X) }

HoverStepBodies(m) == UNION {[1..n -> HoverActionPool] : n \in 0..m}

HoverPlans(m) ==
    { <<>> } \cup
    { << Step("S1", a) >> : a \in HoverStepBodies(m) } \cup
    { << Step("S1", a), Step("S2", b) >> : a \in HoverStepBodies(m), b \in HoverStepBodies(m) }

HoverInit ==
    /\ inp \in HoverPlans(MaxActions)
    /\ out = None
    /\ phase = "in"
    /\ MainIdle

HoverCall ==
    /\ phase = "in"
    /\ out' = inject_final_hover(inp)
    /\ phase' = "out"
    /\ UNCHANGED <<inp, rvars, tvars>>

HoverNext == HoverCall

SpecHover == HoverInit /\ [][HoverNext]_vars

\* the actions of the final step, before and after
FinalActions(plan) == plan[Len(plan)].actions

EndsWithClick(plan) ==
    /\ plan # <<>>
    /\ FinalActions(plan) # <<>>
    /\ FinalActions(plan)[Len(FinalActions(plan))].action_type = "click"

PrecededByClick(plan) ==
    LET a == FinalActions(plan) IN
    Len(a) >= 2 /\ a[Len(a) - 1].action_type = "click"

PrecededByClickOnTarget(plan) ==
    LET a == FinalActions(plan) IN
    PrecededByClick(plan) /\ a[Len(a) - 1].bid = a[Len(a)].bid

\* out is inp with one focus action on the click's target put right before
\* the final click
FocusInserted ==
    LET a == FinalActions(inp)
        b == FinalActions(out)
        m == Len(a)
    IN  /\ Len(out) = Len(inp)
        /\ \A i \in 1..(Len(inp) - 1) : out[i] = inp[i]
        /\ out[Len(out)].step_id = inp[Len(inp)].step_id
        /\ Len(b) = m + 1
        /\ \A i \in 1..(m - 1) : b[i] = a[i]
        /\ b[m].action_type = "focus" /\ b[m].bid = a[m].bid
        /\ b[m + 1] = a[m]

ValidateReturned == phase = "out" /\ ~out.result.raised

IsUnknown(a) == a.action_type \notin VALID_ACTIONS

\* the diagnostics of section 4, in the order they were appended
ActionDiagnostics(errors) == SelectSeq(errors, LAMBDA e : e.kind # "missing")

UnknownDiagnostics(errors) == SelectSeq(errors, LAMBDA e : e.kind = "unknown_action")

UnknownActions(concrete_steps) ==
    SelectSeq(plan_actions(concrete_steps), LAMBDA x : IsUnknown(x.action))

WithoutUnknown(concrete_steps) ==
    [s \in DOMAIN concrete_steps |->
        [concrete_steps[s] EXCEPT !.actions = SelectSeq(@, LAMBDA a : ~IsUnknown(a))]]

\* C12: an action whose action_type is not recognized gets exactly one
\* well-formedness error (naming its step and its type), and no other check
\* runs on it: the remaining per-action diagnostics are those of the plan
\* without the unrecognized actions.
C12_UnknownActionOneErrorOnly ==
    ValidateReturned =>
        LET errors  == out.result.errors
            unknown == UnknownActions(inp.concrete_steps)
            raw_df  == analyze(inp.elements)
        IN  /\ Len(UnknownDiagnostics(errors)) = Len(unknown)
            /\ \A i \in DOMAIN unknown :
                  /\ UnknownDiagnostics(errors)[i].step_id = unknown[i].step_id
                  /\ UnknownDiagnostics(errors)[i].subject = unknown[i].action.action_type
            /\ SelectSeq(ActionDiagnostics(errors), LAMBDA e : e.kind # "unknown_action")
               = ActionDiagnostics(validate_plan(WithoutUnknown(inp.concrete_steps),
                                                 inp.fields_spec, inp.bid_index,
                                                 raw_df).errors)

\* an unrecognized action aimed at the label b2 in the name of field A,
\* next to a recognized action
C12_Witness ==
    /\ ValidateReturned
    /\ inp.elements # <<>>
    /\ Len(plan_actions(inp.concrete_steps)) = 2
    /\ Len(UnknownActions(inp.concrete_steps)) = 1
    /\ UnknownActions(inp.concrete_steps)[1].action = Act("teleport", "b2", "A")
    /\ Len(ActionDiagnostics(out.result.errors)) = 1

Range(seq) == { seq[i] : i \in DOMAIN seq }

\* the action types of the action descriptor exchanged with the oracle, under
\* the names the code gives them (extract is extractLLM, notify-user is
\* send_msg_to_user)
PUBLISHED_ACTIONS ==
    {"fill", "click", "focus", "hover", "dblclick", "select_option", "scroll",
     "extractLLM", "send_msg_to_user"}

\* C13: no action whose type is one of the published interface, or one that
\* build_action_code translates specifically, is reported as an undefined
\* action by validate_plan; the translated types are all recognized.
C13_PublishedTypesRecognized ==
    /\ ValidateReturned =>
          \A x \in Range(plan_actions(inp.concrete_steps)) :
              x.action.action_type \in PUBLISHED_ACTIONS \cup TRANSLATED_ACTIONS =>
                  ~\E e \in Range(out.result.errors) :
                      e.kind = "unknown_action" /\ e.subject = x.action.action_type

\* C14: on a non-empty element table validate_plan returns a list of
\* diagnostics and never raises, whatever the plan and the index hold, an
\* action on a passive label whose logic_ref names a field with the index
\* entry "NOT_FOUND" included.
C14_ValidateNeverRaises ==
    (phase = "out" /\ inp.elements # <<>>) => ~out.result.raised

(***************************************************************************)
(* build_action_code under check: SpecCompile                              *)
(*                                                                         *)
(* One action and one extracted value per behaviour.  Fill values cover    *)
(* the boolean words in several cases and paddings, the placeholder and    *)
(* plain text; scroll actions cover every presence of dx, dy and           *)
(* direction.                                                              *)
(***************************************************************************)
S_FALSE == <<"F","A","L","S","E">>
S_False_padded == <<"F","a","l","s","e"," ">>

FillValues ==
    { S_empty, S_true, S_false, S_True, S_FALSE, S_X,
      S_blank \o S_True \o S_blank, S_blank \o S_X, S_true \o S_X,
      S_extractValue, S_blank \o S_extractValue }

ExtractedValues == { PyNone, PyStr(S_empty), PyStr(S_V), PyStr(S_true), PyStr(S_False_padded) }

Offsets    == { 0, 100, -500 }
Directions == { "down", "up", "left" }

\* a scroll action with any subset of the keys dx, dy, direction
ScrollActions ==
    { [Act("scroll", None, None) EXCEPT !.dx = dx, !.dy = dy, !.direction = d, !.keys = k] :
        dx \in Offsets, dy \in Offsets, d \in Directions,
        k \in SUBSET {"dx", "dy", "direction"} }

NormalScroll(a) ==
    [a EXCEPT !.dx = IF "dx" \in a.keys THEN @ ELSE 0,
              !.dy = IF "dy" \in a.keys THEN @ ELSE 0,
              !.direction = IF "direction" \in a.keys THEN @ ELSE None]

CompileActions ==
    { With(Act("fill", "b3", "B"), "value", v) : v \in FillValues }
    \cup { Act("fill", "b3", "B") }
    \cup { NormalScroll(a) : a \in ScrollActions }
    \cup { Act("click", "b1", "A"), Act("dblclick", "b1", None), Act("press", "b3", None),
           With(Act("press", "b3", None), "value", S_X), Act("noop", None, None),
           Act("extractLLM", None, None),
           With(Act("select_option", "b4", None), "options", S_extractValue),
           With(Act("select_option", "b4", None), "value", S_X),
           With(Act("send_msg_to_user", None, None), "message", S_extractValue),
           Act("send_msg_to_user", None, None) }

CompileInit ==
    /\ inp \in [action : CompileActions, last_extracted_value : ExtractedValues]
    /\ out = None
    /\ phase = "in"
    /\ MainIdle

CompileCall ==
    /\ phase = "in"
    /\ out' = build_action_code(inp.action, inp.last_extracted_value)
    /\ phase' = "out"
    /\ UNCHANGED <<inp, rvars, tvars>>

CompileNext == CompileCall

SpecCompile == CompileInit /\ [][CompileNext]_vars

\* the value of a fill action after placeholder substitution
SubstitutedValue ==
    LET v   == IF "value" \in inp.action.keys THEN inp.action.value ELSE <<>>
        lev == inp.last_extracted_value
    IN  IF lev.t = "str" /\ lev.s # <<>> /\ str_contains(v, S_extractValue)
        THEN str_replace(v, S_extractValue, lev.s)
        ELSE v

IsBooleanWord(v) == str_lower(str_strip(v)) \in {S_true, S_false}

\* C15: a fill action compiles to a click on the same target exactly when its
\* value, after placeholder substitution and trimming, is "true" or "false"
\* in any case; every other fill compiles to a fill on the target carrying
\* the substituted value untrimmed and in its own case.
C15_FillBooleanBecomesClick ==
    (phase = "out" /\ inp.action.action_type = "fill") =>
        /\ Len(out) = 1
        /\ out[1].bid = inp.action.bid
        /\ out[1].fn = "click" <=> IsBooleanWord(SubstitutedValue)
        /\ out[1].fn # "click" =>
              /\ out[1].fn = "fill"
              /\ out[1].arg = PyStr(SubstitutedValue)

\* a padded boolean word produced by substitution, and a padded plain value
C15_Witness ==
    /\ phase = "out"
    /\ inp.action.action_type = "fill"
    /\ inp.action.value = S_blank \o S_extractValue
    /\ inp.last_extracted_value = PyStr(S_False_padded)
    /\ out[1].fn = "click"

\* C16: a scroll action carrying an explicit dy compiles to scroll(dx, dy)
\* with exactly the given offsets, an explicit dy of 0 included; a scroll
\* action with no offsets uses the direction (down -> +500, up -> -500),
\* down when none is named.
C16_ScrollKeepsExplicitOffsets ==
    (phase = "out" /\ inp.action.action_type = "scroll") =>
        LET a == inp.action IN
        /\ Len(out) = 1 /\ out[1].fn = "scroll"
        /\ "dy" \in a.keys =>
              /\ out[1].dy = a.dy
              /\ out[1].dx = (IF "dx" \in a.keys THEN a.dx ELSE 0)
        /\ a.keys \cap {"dx", "dy"} = {} =>
              /\ out[1].dx = 0
              /\ "direction" \notin a.keys => out[1].dy = 500
              /\ ("direction" \in a.keys /\ a.direction = "down") => out[1].dy = 500
              /\ ("direction" \in a.keys /\ a.direction = "up") => out[1].dy = -500

(***************************************************************************)
(* build_bid_index under check: SpecIndex                                  *)
(*                                                                         *)
(* Field tables hold a select and a label whose texts vary, for one field  *)
(* name; button tables hold one candidate button of varying text,          *)
(* position, class and visibility, alone or next to a plain Submit button. *)
(***************************************************************************)
S_Save      == <<"S","a","v","e">>
S_Save_View == <<"S","a","v","e"," ","V","i","e","w">>
S_View      == <<"V","i","e","w">>
S_primary   == <<"b","t","n","-","p","r","i","m","a","r","y">>

IndexFieldKeys == {"Category", "Unit_Cost", "Cost (USD)"}
LabelTexts     == {S_empty, S_Category, S_Unit_Cost, S_Cost_USD, S_cost_usd}

SelectElement(label_l, vis) ==
    [Labelled(Element("s1", "combobox", "SELECT", <<>>, <<>>, FALSE, FALSE, <<>>), label_l)
        EXCEPT !.Vis = vis, !.BBox = BBox(185, 198, 150, 24)]

TextElement(tag, innerT, label_l) ==
    [Element("t1", IF tag = "LABEL" THEN "LabelText" ELSE "generic", tag, <<>>, innerT,
             FALSE, FALSE, <<>>) EXCEPT !.Label_L = label_l]

FieldTables ==
    { << TextElement(tag, t, l), SelectElement(s, vis) >> :
        tag \in {"LABEL", "SPAN"}, t \in LabelTexts, l \in {S_empty, S_Category},
        s \in LabelTexts, vis \in {0, 1} }

ButtonElement(bid, innerT, label_a, x, y, cls, vis) ==
    [Element(bid, "button", "BUTTON", <<>>, innerT, FALSE, FALSE, cls)
        EXCEPT !.Label_A = label_a, !.Vis = vis, !.BBox = BBox(x, y, 80, 30)]

PlainSubmit == ButtonElement("b8", S_Submit, <<>>, 100, 600, <<>>, 1)

ButtonTables ==
    UNION { { << ButtonElement("b7", t, a, pos[1], pos[2], cls, vis) >>,
              << ButtonElement("b7", t, a, pos[1], pos[2], cls, vis), PlainSubmit >> } :
            t \in {S_Save, S_Save_View, S_View}, a \in {S_empty, S_Save},
            pos \in {<<900, 100>>, <<100, 600>>}, cls \in {S_empty, S_primary},
            vis \in {0, 1} }

IndexInput(fields, intent, elements) ==
    [fields |-> fields, intent |-> intent, elements |-> elements]

IndexInputs ==
    { IndexInput({k}, "GENERAL", t) : k \in IndexFieldKeys, t \in FieldTables }
    \cup
    { IndexInput({}, i, t) : i \in {"CREATE", "EDIT", "FIND", "GENERAL"}, t \in ButtonTables }

IndexInit ==
    /\ inp \in IndexInputs
    /\ out = None
    /\ phase = "in"
    /\ MainIdle

\* one call of build_bid_index on the table analyze() builds from the page
IndexCall ==
    /\ phase = "in"
    /\ LET raw_df == analyze(inp.elements) IN
       out' = [index  |-> build_bid_index([f \in inp.fields |-> S_X], raw_df),
               search |-> primary_search_input(inp.intent, raw_df),
               submit |-> submit_button(inp.intent, raw_df)]
    /\ phase' = "out"
    /\ UNCHANGED <<inp, rvars, tvars>>

IndexNext == IndexCall

SpecIndex == IndexInit /\ [][IndexNext]_vars

\* the rows one of whose label columns contains the text, whatever the case
RowsContaining(raw_df, text) ==
    { i \in DOMAIN raw_df :
        \E col \in {raw_df[i].Label_L, raw_df[i].Label_A, raw_df[i].Label_AX,
                    raw_df[i].InnerT, raw_df[i].Label_P} :
            str_contains(str_lower(col), str_lower(text)) }

MaxScore(raw_df, rows, key) ==
    CHOOSE m \in { score_row(raw_df[i], key) : i \in rows } :
        \A i \in rows : score_row(raw_df[i], key) <= m

\* C17: every field has an entry; it is bound to a row of maximal score among
\* the rows whose label columns contain the normalized field name when that
\* score is at least 50, and is "NOT_FOUND" otherwise.
C17_FieldBoundToBestCandidate ==
    phase = "out" =>
        LET raw_df == analyze(inp.elements) IN
        /\ DOMAIN out.index = inp.fields
        /\ \A f \in inp.fields :
              LET rows == RowsContaining(raw_df, norm_key(f)) IN
              IF rows # {} /\ MaxScore(raw_df, rows, norm_key(f)) >= 50
              THEN /\ out.index[f].kind = "dict"
                   /\ \E i \in rows :
                         /\ raw_df[i].BID = out.index[f].bid
                         /\ score_row(raw_df[i], norm_key(f)) = MaxScore(raw_df, rows, norm_key(f))
              ELSE out.index[f] = NOT_FOUND

SubmitCandidate ==
    CHOOSE i \in DOMAIN analyze(inp.elements) : analyze(inp.elements)[i].BID = out.submit.bid

\* C18: the submission control exposed under SUBMIT_BUTTON is an element
\* whose text matches an execution verb and contains no reference verb,
\* whatever its position and emphasis class.
C18_SubmitNeverReferenceVerb ==
    (phase = "out" /\ out.submit.kind = "dict") =>
        LET row == analyze(inp.elements)[SubmitCandidate] IN
        /\ contains_any(row.InnerT, EXEC_KEYWORDS) \/ contains_any(row.Label_A, EXEC_KEYWORDS)
        /\ ~contains_any(row.InnerT, INFO_KEYWORDS)

(***************************************************************************)
(* ObservationAnalyzer.analyze under check: SpecAnalyze                    *)
(*                                                                         *)
(* Pages of one or two elements whose bounding box, visibility, tag,       *)
(* clickability, focus and popup attribute vary; at most one element is    *)
(* the focused one.                                                        *)
(***************************************************************************)
Boxes == { NoBBox, BBox(10, 10, 0, 20), BBox(10, 10, 30, 0), BBox(10, 10, 30, 20) }

PageElement(bid, tag, box, vis, clickable, is_focused, pop) ==
    [Element(bid, "generic", tag, <<>>, <<>>, FALSE, FALSE, <<>>)
        EXCEPT !.BBox = box, !.Vis = vis, !.Clickable = clickable,
               !.focused = is_focused, !.haspopup = pop]

FirstElements ==
    { PageElement("e1", tag, box, vis, c, f, p) :
        tag \in {"SPAN", "INPUT"}, box \in Boxes, vis \in {0, 1},
        c \in BOOLEAN, f \in BOOLEAN, p \in BOOLEAN }

SecondElements ==
    { PageElement("e2", "SPAN", box, vis, FALSE, f, FALSE) :
        box \in {NoBBox, BBox(10, 10, 30, 20)}, vis \in {0, 1}, f \in BOOLEAN }

AnalyzePages ==
    { << a >> : a \in FirstElements } \cup
    { << a, b >> : a \in FirstElements, b \in { e \in SecondElements : ~e.focused } } \cup
    { << a, b >> : a \in { e \in FirstElements : ~e.focused /\ ~e.haspopup },
                   b \in { e \in SecondElements : e.focused } }

AnalyzeInit ==
    /\ inp \in AnalyzePages
    /\ out = None
    /\ phase = "in"
    /\ MainIdle

AnalyzeCall ==
    /\ phase = "in"
    /\ out' = analyze(inp)
    /\ phase' = "out"
    /\ UNCHANGED <<inp, rvars, tvars>>

AnalyzeNext == AnalyzeCall

SpecAnalyze == AnalyzeInit /\ [][AnalyzeNext]_vars

ZeroAreaOrAbsent(box) == ~box.present \/ box.w * box.h = 0

\* C19: no row of the table belongs to an element whose bounding box is absent
\* or of zero area unless the element is the focused one, and every row whose
\* visibility ratio is 0 is focused, interactive-tagged or clickable.
C19_RowsHaveSizeAndVisibility ==
    phase = "out" =>
        \A i \in DOMAIN out :
            /\ ZeroAreaOrAbsent(out[i].BBox) => out[i].Focused = "YES"
            /\ out[i].Vis = 0 =>
                  \/ out[i].Focused = "YES"
                  \/ out[i].Tag \in {"INPUT", "SELECT", "TEXTAREA", "BUTTON", "A"}
                  \/ out[i].JS = "YES"

\* a sizeless invisible span is dropped while the focused element without a
\* bounding box keeps its row
C19_Witness ==
    /\ phase = "out"
    /\ Len(inp) = 2 /\ Len(out) = 1
    /\ inp[1].Tag = "SPAN" /\ ZeroAreaOrAbsent(inp[1].BBox) /\ inp[1].Vis = 0
    /\ out[1].BID = "e2" /\ ~out[1].BBox.present /\ out[1].Vis = 0

(***************************************************************************)
(* ObservationFilter.apply                                                 *)
(***************************************************************************)
critical_mask_without_value(row) ==
    \/ row.Focused = "YES"
    \/ row.Hover_Strat = "Investigate"
    \/ row.HasPop = "YES"

critical_mask(row) ==
    \/ row.Focused = "YES"
    \/ Len(row.Value) > 0
    \/ row.Hover_Strat = "Investigate"
    \/ row.HasPop = "YES"

interactive_roles ==
    {"button", "link", "textbox", "combobox", "checkbox", "radio", "menuitem",
     "searchbox", "listbox", "tab", "treeitem", "option", "LabelText"}

input_tags == {"input", "select", "textarea", "button", "a", "label"}

filter_is_interactive(row) ==
    \/ row.Role \in interactive_roles
    \/ row.JS = "YES"
    \/ tag_lower(row.Tag) \in input_tags

has_text(row) == Len(str_strip(row.InnerT)) > 0

is_label_any_length(row) ==
    /\ row.Role = "StaticText" \/ row.Tag = "SPAN"
    /\ Len(str_strip(row.InnerT)) < 100

is_label(row) ==
    /\ row.Role = "StaticText" \/ row.Tag = "SPAN"
    /\ Len(str_strip(row.InnerT)) > 1
    /\ Len(str_strip(row.InnerT)) < 100

light_keeps(row) == critical_mask(row) \/ filter_is_interactive(row) \/ has_text(row)

aggressive_keeps(row) == critical_mask(row) \/ filter_is_interactive(row) \/ is_label(row)

\* ObservationFilter.apply(df, mode)
apply(df, mode) ==
    IF df = <<>> \/ mode = "OFF" THEN df
    ELSE IF mode = "Light" THEN SelectSeq(df, light_keeps)
    ELSE IF mode = "Aggressive" THEN SelectSeq(df, aggressive_keeps)
    ELSE df

(***************************************************************************)
(* ObservationFilter.apply under check: SpecFilter                         *)
(*                                                                         *)
(* Tables analyze() builds from pages of up to three elements: two whose   *)
(* role, tag, value, text, focus, popup attribute and clickability vary    *)
(* and a plain link between them.                                          *)
(***************************************************************************)
FilterElement(bid, role, tag, value, innerT, is_focused, pop, clickable) ==
    [Element(bid, role, tag, value, innerT, FALSE, FALSE, <<>>)
        EXCEPT !.focused = is_focused, !.haspopup = pop, !.Clickable = clickable]

FilterFirst ==
    { FilterElement("e1", role, tag, v, t, f, p, c) :
        role \in {"generic", "StaticText"}, tag \in {"SPAN", "DIV"},
        v \in {S_empty, S_blank, S_X}, t \in {S_empty, S_X, S_Category},
        f \in BOOLEAN, p \in BOOLEAN, c \in BOOLEAN }

FilterLast ==
    { FilterElement("e3", "generic", "DIV", v, t, FALSE, FALSE, FALSE) :
        v \in {S_empty, S_X}, t \in {S_empty, S_X} }

LinkElement == FilterElement("e2", "link", "A", <<>>, S_View, FALSE, FALSE, FALSE)

FilterPages ==
    { <<>> } \cup
    { << a >> : a \in FilterFirst } \cup
    { << a, LinkElement, b >> : a \in FilterFirst, b \in FilterLast }

FilterModes == {"Light", "Aggressive", "OFF"}

FilterInit ==
    /\ inp \in [elements : FilterPages, mode : FilterModes]
    /\ out = None
    /\ phase = "in"
    /\ MainIdle

\* one call of ObservationFilter.apply on the table analyze() builds
FilterCall ==
    /\ phase = "in"
    /\ out' = apply(analyze(inp.elements), inp.mode)
    /\ phase' = "out"
    /\ UNCHANGED <<inp, rvars, tvars>>

FilterNext == FilterCall

SpecFilter == FilterInit /\ [][FilterNext]_vars

IsCritical(row) ==
    \/ row.Focused = "YES"
    \/ row.Value # <<>>
    \/ row.Hover_Strat = "Investigate"
    \/ row.HasPop = "YES"

\* sub holds rows of df only, unmodified and in their order in df
IsSubsequence(sub, df) ==
    \E f \in [DOMAIN sub -> DOMAIN df] :
        /\ \A j \in DOMAIN sub : sub[j] = df[f[j]]
        /\ \A j, k \in DOMAIN sub : j < k => f[j] < f[k]

\* C20: under the Light and the Aggressive policy every critical row of the
\* input (focused, non-empty Value, Hover_Strat Investigate or HasPop YES) is
\* in the output, and the output holds only rows of the input, unmodified
\* and in their original relative order.
C20_CriticalRowsKeptInOrder ==
    (phase = "out" /\ inp.mode \in {"Light", "Aggressive"}) =>
        LET df == analyze(inp.elements) IN
        /\ \A i \in DOMAIN df : IsCritical(df[i]) => \E j \in DOMAIN out : out[j] = df[i]
        /\ IsSubsequence(out, df)

\* a row kept for its value alone, behind a link, while the first row goes
C20_Witness ==
    /\ phase = "out" /\ inp.mode = "Aggressive"
    /\ Len(analyze(inp.elements)) = 3 /\ Len(out) = 2
    /\ out[1].BID = "e2"
    /\ out[2].BID = "e3" /\ out[2].InnerT = <<>> /\ out[2].Value = S_X

(***************************************************************************)
(* validate_plan: unresolved fields and redundant clicks (SpecValidate)    *)
(***************************************************************************)
Unresolvable(f) == index_get(inp.bid_index, f).kind \in {"NOT_FOUND", "absent"}

\* C21: a specified field whose index entry is "NOT_FOUND", or that has no
\* index entry, is never named by a missing-field error, whatever the plan
\* and the live table; when every unsatisfied, unplanned field is of that
\* kind there is no missing-field error at all.
C21_UnresolvableFieldNeverMissing ==
    ValidateReturned =>
        /\ \A f \in DOMAIN inp.fields_spec : Unresolvable(f) => ~ReportedMissing(f)
        /\ (\A f \in DOMAIN inp.fields_spec :
               Unresolvable(f) \/ f \in out.completed \/ ~Unreferenced(f))
           => ~\E e \in Range(out.result.errors) : e.kind = "missing"

\* A is unresolvable, unsatisfied and unplanned next to a reported field B
C21_Witness ==
    /\ ValidateReturned
    /\ inp.elements # <<>>
    /\ "B" \in DOMAIN inp.fields_spec
    /\ Unresolvable("A") /\ "A" \notin out.completed /\ Unreferenced("A")
    /\ ReportedMissing("B") /\ ~ReportedMissing("A")

\* the clicks of the plan that carry a removal instruction
FlaggedForRemoval(x) ==
    \E e \in Range(out.result.errors) :
        e.kind = "redundant_click" /\ e.step_id = x.step_id /\ e.subject = x.action.logic_ref

IsBooleanTarget(f) ==
    f \in DOMAIN inp.fields_spec /\ str_lower(inp.fields_spec[f]) \in {S_true, S_false}

Clicks ==
    {i \in DOMAIN plan_actions(inp.concrete_steps) :
        plan_actions(inp.concrete_steps)[i].action.action_type = "click"}

\* C24: a click of the plan is flagged for removal exactly when its logic_ref
\* names a field the completion audit found satisfied whose target is "true"
\* or "false"; a click on a satisfied field with another target, or on an
\* unsatisfied field, is not flagged, and the removal instructions are as
\* many as the flagged clicks.
C24_RedundantClickIffSatisfiedBoolean ==
    ValidateReturned =>
        LET acts == plan_actions(inp.concrete_steps) IN
        /\ \A i \in Clicks :
              FlaggedForRemoval(acts[i]) <=>
                  /\ acts[i].action.logic_ref \in out.completed
                  /\ IsBooleanTarget(acts[i].action.logic_ref)
        /\ Len(SelectSeq(out.result.errors, LAMBDA e : e.kind = "redundant_click"))
              = Cardinality({i \in Clicks : FlaggedForRemoval(acts[i])})

\* a flagged click on the satisfied checkbox A next to an unflagged click on
\* the satisfied text field B
C24_Witness ==
    /\ ValidateReturned
    /\ inp.fields_spec = [f \in {"A", "B"} |-> IF f = "A" THEN S_true ELSE S_X]
    /\ out.completed = {"A", "B"}
    /\ \E i, j \in Clicks :
          LET acts == plan_actions(inp.concrete_steps) IN
          /\ acts[i].action.logic_ref = "A" /\ FlaggedForRemoval(acts[i])
          /\ acts[j].action.logic_ref = "B" /\ ~FlaggedForRemoval(acts[j])

(***************************************************************************)
(* Claims about the task loop: resources, completion state, extraction     *)
(***************************************************************************)
\* C22: whenever run_autonomous_task is left after the environment was
\* created - by normal completion, by an exception in any phase or by a
\* SIGINT that arrived inside the try block - close() has been called.
C22_EnvClosedOnEveryExit ==
    (pc = "end" /\ task.env.created /\ ~task.env.late_sigint) => task.env.closed

\* left after a SIGINT in the middle of a plan's execution
C22_Witness ==
    /\ pc = "end"
    /\ task.env.created /\ task.env.sigint /\ ~task.env.late_sigint
    /\ hist.acted
    /\ task.env.closed

\* the cycle's audit has just run on rl.raw_df
AuditDone == pc = "build_bid_index" /\ rl.caller = "task"

\* C23: after the per-cycle audit the completed set holds a specified field
\* exactly when the field is judged filled in the table of the current cycle;
\* a field completed in an earlier cycle and no longer filled is not in it.
C23_CompletionRecomputedEachCycle ==
    AuditDone =>
        \A f \in DOMAIN FIELDS :
            f \in task.completed_logic_refs <=> is_actually_filled(f, FIELDS[f], rl.raw_df)

\* B was filled in an earlier cycle and is not any more
C23_Witness ==
    /\ AuditDone
    /\ task.loop_idx >= 2
    /\ "B" \in task.once_completed
    /\ "B" \notin task.completed_logic_refs

\* the loop is at an extractLLM action of the plan being executed
AtExtract == pc = "execute" /\ HasAction /\ current_action.action_type = "extractLLM"

\* C25: handling an extractLLM action sends no command to the environment;
\* unless the handling is cut short by an exception or a SIGINT, it stores
\* the extractor's result in extract_memory and abandons the rest of the
\* plan, and what follows is the head of the next cycle, which plans anew or
\* ends the loop.
C25_ExtractInterruptsPlan ==
    [][AtExtract =>
          /\ hist'.last_call = hist.last_call
          /\ hist'.acted = hist.acted
          /\ pc' # "finally" =>
                /\ task'.extract_memory = hist'.raw_value
                /\ hist'.raw_value \in ExtractValues
                /\ pc' = "observe"
                /\ task'.steps = <<>>
                /\ task'.loop_idx = task.loop_idx + 1]_vars

\* an extraction was stored while a later action of the plan was pending
C25_Witness ==
    /\ pc = "observe"
    /\ hist.raw_value # PyNone
    /\ task.extract_memory = hist.raw_value
    /\ ~hist.acted
    /\ Len(plan_actions(plan_result.concrete_steps)) >= 2
    /\ plan_actions(plan_result.concrete_steps)[1].action.action_type = "extractLLM"

(***************************************************************************)
(* inject_final_hover applied to its own result (SpecHover)                *)
(***************************************************************************)
\* C26: applying inject_final_hover to a plan it has already processed
\* returns that plan unchanged, so at most one synthetic focus precedes the
\* final click.
C26_InjectTwiceSameAsOnce ==
    phase = "out" => inject_final_hover(out) = out

(***************************************************************************)
(* ObservationAnalyzer._get_hierarchical_area (SpecArea)                   *)
(*                                                                         *)
(* unified_map is a sequence of nodes in insertion order.  One iteration   *)
(* of the while loop is one step; out holds the locals path, curr_bid and  *)
(* visited while the walk runs, and the returned text afterwards.          *)
(***************************************************************************)
MaxNodes == 3        \* most elements of a drawn unified_map

S_Main_Content == <<"M","a","i","n"," ","C","o","n","t","e","n","t">>
S_F == <<"F">>
S_G == <<"G">>

LANDMARK_ROLES == {"form", "region", "navigation", "main", "banner"}

\* unified_map.get(curr_bid)
area_has_node(unified_map, bid) == \E i \in DOMAIN unified_map : unified_map[i].BID = bid

area_node(unified_map, bid) ==
    unified_map[CHOOSE i \in DOMAIN unified_map : unified_map[i].BID = bid]

\* node['AX_Name'] or node['Attributes'].get('aria-label')
area_name(node) == IF node.AX_Name # <<>> THEN node.AX_Name ELSE node.aria_label

\* next((b for b, d in unified_map.items()
\*       if str(d.get('Internal_ID')) == str(p_id)), None)
area_parent(unified_map, p_id) ==
    IF \E i \in DOMAIN unified_map : unified_map[i].Internal_ID = p_id
    THEN LET i == CHOOSE i \in DOMAIN unified_map :
                     /\ unified_map[i].Internal_ID = p_id
                     /\ \A j \in 1..(i - 1) : unified_map[j].Internal_ID # p_id
         IN  unified_map[i].BID
    ELSE None

area_continues_unchecked(curr_bid, visited) == curr_bid # None

\* the while condition: "curr_bid and curr_bid not in visited"
area_continues(curr_bid, visited) == curr_bid # None /\ curr_bid \notin visited

\* " > ".join(reversed(path)) if path else "Main Content"
RECURSIVE area_join(_)
area_join(path) ==
    IF path = <<>> THEN <<>>
    ELSE IF Len(path) = 1 THEN path[1]
    ELSE path[Len(path)] \o <<" ", ">", " ">> \o area_join(SubSeq(path, 1, Len(path) - 1))

area_result(path) == IF path = <<>> THEN S_Main_Content ELSE area_join(path)

AreaBids == <<"n1", "n2", "n3", "n4", "n5">>
AreaIds  == <<"i1", "i2", "i3", "i4", "i5">>

\* what an element is to the walk: role, accessible name, aria-label
AreaKinds ==
    { [Role |-> "generic", AX_Name |-> S_F,     aria_label |-> S_empty],
      [Role |-> "form",    AX_Name |-> S_F,     aria_label |-> S_empty],
      [Role |-> "main",    AX_Name |-> S_empty, aria_label |-> S_G],
      [Role |-> "region",  AX_Name |-> S_empty, aria_label |-> S_empty] }

AreaNode(i, kind, p_id) ==
    [BID |-> AreaBids[i], Internal_ID |-> AreaIds[i], Role |-> kind.Role,
     AX_Name |-> kind.AX_Name, aria_label |-> kind.aria_label, Parent_NodeID |-> p_id]

AreaParents(n) == {None} \cup {AreaIds[i] : i \in 1..n}

\* the maps of n elements
AreaMaps(n) ==
    { [i \in 1..n |-> AreaNode(i, kinds[i], parents[i])] :
        kinds \in [1..n -> AreaKinds], parents \in [1..n -> AreaParents(n)] }

AreaInit ==
    /\ \E m \in AreaMaps(MaxNodes), bid \in {AreaBids[1], "zz"} :
          inp = [unified_map |-> m, bid |-> bid]
    /\ out = [path |-> <<>>, curr_bid |-> inp.bid, visited |-> {}, revisited |-> FALSE,
              area |-> <<>>]
    /\ phase = "walk"
    /\ MainIdle

\* one iteration of the while loop
AreaStep ==
    /\ phase = "walk"
    /\ area_continues(out.curr_bid, out.visited)
    /\ IF ~area_has_node(inp.unified_map, out.curr_bid)
       THEN \* break
            /\ out' = [out EXCEPT !.visited = @ \cup {out.curr_bid},
                                  !.revisited = @ \/ out.curr_bid \in out.visited,
                                  !.area = area_result(out.path)]
            /\ phase' = "out"
       ELSE LET node == area_node(inp.unified_map, out.curr_bid)
                name == area_name(node)
            IN  /\ out' = [out EXCEPT
                             !.visited = @ \cup {out.curr_bid},
                             !.revisited = @ \/ out.curr_bid \in out.visited,
                             !.path = IF /\ node.Role \in LANDMARK_ROLES
                                         /\ name # <<>>
                                         /\ \A k \in DOMAIN out.path : out.path[k] # name
                                      THEN Append(@, name) ELSE @,
                             !.curr_bid = area_parent(inp.unified_map, node.Parent_NodeID)]
                /\ phase' = "walk"
    /\ UNCHANGED <<inp, rvars, tvars>>

\* the while condition is false: return
AreaReturn ==
    /\ phase = "walk"
    /\ ~area_continues(out.curr_bid, out.visited)
    /\ out' = [out EXCEPT !.area = area_result(out.path)]
    /\ phase' = "out"
    /\ UNCHANGED <<inp, rvars, tvars>>

AreaNext == AreaStep \/ AreaReturn

\* the loop body always runs to its end
SpecArea == AreaInit /\ [][AreaNext]_vars /\ WF_vars(AreaNext)

\* the elements on the parent chain of the start element, the start included
RECURSIVE AreaChain(_, _)
AreaChain(bid, seen) ==
    IF bid = None \/ bid \in seen \/ ~area_has_node(inp.unified_map, bid) THEN seen
    ELSE AreaChain(area_parent(inp.unified_map, area_node(inp.unified_map, bid).Parent_NodeID),
                   seen \cup {bid})

NamedLandmark(bid) ==
    LET node == area_node(inp.unified_map, bid) IN
    node.Role \in LANDMARK_ROLES /\ (node.AX_Name # <<>> \/ node.aria_label # <<>>)

\* C27: the walk never visits an element twice, so it makes at most as many
\* iterations as there are elements (one more for a start bid that is not in
\* the map); it returns for every parent structure, cyclic ones included;
\* and it returns "Main Content" when no element on the chain from the start
\* element has a landmark role and a name.
C27_AreaWalkTerminates ==
    /\ [](~out.revisited /\ Cardinality(out.visited) <= MaxNodes + 1)
    /\ <>(phase = "out")
    /\ []((phase = "out" /\ \A b \in AreaChain(inp.bid, {}) : ~NamedLandmark(b))
            => out.area = S_Main_Content)

\* the walk went round a cycle of all the elements and found no landmark name
C27_Witness ==
    /\ phase = "out"
    /\ Cardinality(out.visited) = MaxNodes
    /\ out.curr_bid = inp.bid
    /\ out.area = S_Main_Content
    /\ \E i \in DOMAIN inp.unified_map : inp.unified_map[i].Role = "region"

(***************************************************************************)
(* run_repair_loop: oracle calls and the max_retries = 0 case (SpecRepair) *)
(***************************************************************************)
\* the index build_bid_index computed has an entry "NOT_FOUND"
SomeEntryUnresolved ==
    \E f \in DOMAIN FIELDS : build_bid_index(FIELDS, rl.raw_df)[f].kind = "NOT_FOUND"

IndexSettled == pc \notin {"build_bid_index", "refine_bid_index"}

\* C28: in an invocation with max_retries >= 1 there is at most one
\* index-remediation call, made before the generation and only when some
\* index entry is unresolved; a generation or a repair makes at most 3
\* calls; at most max_retries - 1 repairs are made; and the index is not
\* changed once the remediation step is over.
C28_OracleCallsBounded ==
    /\ [](rl.max_retries >= 1 =>
            /\ hist.index_calls <= 1
            /\ hist.index_calls = 1 => IndexSettled /\ SomeEntryUnresolved
            /\ rl.gen_calls <= GEN_ATTEMPTS
            /\ rl.i <= rl.max_retries - 1
            /\ pc = "repair" => rl.i < rl.max_retries - 1)
    /\ [][/\ hist'.index_calls # hist.index_calls => pc = "refine_bid_index"
          /\ IndexSettled => rl'.bid_index = rl.bid_index]_vars

\* C29: with max_retries = 0 run_repair_loop returns a result dictionary,
\* and when the generation succeeded the result carries the generated plan.
C29_ZeroRetriesReturnsPlan ==
    (Returned /\ rl.max_retries = 0) =>
        /\ ~plan_result.raised
        /\ ~Failed(plan_result) => plan_result.concrete_steps = rl.current_steps

(***************************************************************************)
(* ObservationFilter.apply: the two modes compared (SpecFilter)            *)
(***************************************************************************)
LightRows == apply(analyze(inp.elements), "Light")

\* C30: every row the Aggressive mode keeps is kept by the Light mode on
\* the same table, in the same order.
C30_AggressiveWithinLight ==
    (phase = "out" /\ inp.mode = "Aggressive") =>
        /\ \A i \in DOMAIN out : \E j \in DOMAIN LightRows : LightRows[j] = out[i]
        /\ IsSubsequence(out, LightRows)

\* Aggressive kept some rows and dropped one that Light keeps
C30_Witness ==
    /\ phase = "out" /\ inp.mode = "Aggressive"
    /\ out # <<>>
    /\ Len(out) < Len(LightRows)

====
